---- MODULE Spec2Model ----
(***************************************************************************)
(* A model of the Steam / Nintendo -> Supabase synchronisation scripts:     *)
(*   01_steam_to_supabase_pipeline.py   (append mode)                      *)
(*   02_update_recent_reviews.py        (refresh of recent games)          *)
(*   03_collect_all_nintendo_games_clean.py (staged bulk backfill)         *)
(*   04_check_coming_soon_updates.py    (recheck-pending mode)             *)
(*   07_comprehensive_coming_soon_checker.py (comprehensive check)         *)
(*                                                                         *)
(* The database is modelled as the committed state `db` and the view of    *)
(* the one psycopg2 session `tx` (db plus the statements executed since    *)
(* the last commit/rollback).  psycopg2 does not autocommit: a statement   *)
(* opens a transaction, conn.commit() makes tx the committed state,        *)
(* conn.rollback(), conn.close() and the death of the process discard it.  *)
(* A failed statement leaves the transaction aborted: every later          *)
(* statement raises until the next rollback.                               *)
(***************************************************************************)
EXTENDS Integers, Sequences, FiniteSets, TLC

\* ------------------------------------------------------------- bounds
MaxAppId == 2
MaxPriceRows == 2
MaxRetryDepth == 2
MaxDay == 16
CursorMaxKey == 12
MaxNKey == 2
MaxPayload == 2
MaxBatchDocs == 2
MaxAgeLen == 3
\* the page size of 07 (batch_size = 100 in the source), scaled
CheckBatchSize == 1

\* ---------------------------------------------------- program constants
StalenessDays == 7
MaxBatch == 1000

AppIds == 1..MaxAppId
Null == -1

\* ------------------------------------------------------ source payloads
\* What the appdetails endpoint can deliver for one app id (the fields the
\* scripts read).  price = NoPrice: the payload has no price_overview key.
NoPrice == 0
GameKind == "game"

\* A value as response.json() delivers it, for the fields whose type the
\* scripts do not take for granted: None, an int, a str (its characters), a
\* float ("float": finite, n its integer part; "nan"; "inf", which json reads
\* from 1e999 or Infinity), a list.
PyVal(kind, n, s) == [kind |-> kind, n |-> n, s |-> s]
PyNone == PyVal("none", 0, <<>>)
PyInt(n) == PyVal("int", n, <<>>)
PyStr(s) == PyVal("str", 0, s)
PyInf == PyVal("inf", 0, <<>>)
\* an exception that leaves the function
PyRaise == PyVal("raise", 0, <<>>)

\* A container of the payload: the key is missing, or its value is a dict
\* (entries: its key/value pairs), a list (items), a str or null.
Container(kind, entries, items) == [kind |-> kind, entries |-> entries, items |-> items]
Missing == Container("missing", <<>>, <<>>)
Dict(entries) == Container("dict", entries, <<>>)
List(items) == Container("list", <<>>, items)

\* What the appdetails endpoint usually delivers besides the fields below.
BaseDetails ==
    [ type |-> "game", coming_soon |-> FALSE, price |-> 5, is_free |-> FALSE,
      required_age |-> PyInt(0),
      pc_requirements |-> Dict(<< <<"minimum", "min">>, <<"recommended", "rec">> >>),
      metacritic |-> Missing,
      recommendations |-> Missing ]

DetailSamples ==
    { BaseDetails,
      [BaseDetails EXCEPT !.coming_soon = TRUE, !.price = NoPrice, !.is_free = TRUE],
      [BaseDetails EXCEPT !.type = "dlc"],
      [BaseDetails EXCEPT !.type = "dlc", !.coming_soon = TRUE, !.price = NoPrice,
                          !.is_free = TRUE] }
NoDetails == [BaseDetails EXCEPT !.type = "none", !.price = NoPrice]

\* get_review_summary's result: Null stands for the empty dict {}, a number
\* for a summary whose total_reviews is that number.
ReviewSamples == {Null, 42}

\* get_game_tags' result: a list of tag names, possibly with repeats.
TagSamples == { <<>>, <<"rpg">>, <<"rpg", "rpg">> }

\* HTTP outcomes of one request.
Responses == {"ok", "throttled", "failed"}

\* ------------------------------------------------------------- tables
EmptyDb ==
    [ games |-> <<>>, price_history |-> <<>>, game_tags |-> {}, checking |-> <<>>,
      games_nintendo |-> {}, staging_exists |-> FALSE, staging |-> <<>>,
      role |-> "origin" ]

Keys(t) == DOMAIN t

\* max over a set of naturals, 0 for the empty set
SetMax(S) == IF S = {} THEN 0 ELSE CHOOSE m \in S : \A x \in S : x <= m

\* INSERT ... ON CONFLICT (app_id) DO UPDATE SET <every column>
UpsertRow(t, k, row) == [x \in (DOMAIN t) \cup {k} |-> IF x = k THEN row ELSE t[x]]

DeleteKeys(t, ks) == [x \in (DOMAIN t) \ ks |-> t[x]]

RECURSIVE SortedSeq(_)
\* valid_apps.sort(key=appid): the ascending sequence of a set of ids
SortedSeq(S) ==
    IF S = {} THEN <<>>
    ELSE LET m == CHOOSE x \in S : \A y \in S : x <= y
         IN  <<m>> \o SortedSeq(S \ {m})

Prefix(s, n) == IF n < Len(s) THEN SubSeq(s, 1, n) ELSE s

VARIABLES
    db,             \* committed database state
    tx,             \* the session's view: db plus uncommitted statements
    aborted,        \* the session's transaction is in the failed state
    today,          \* the database clock, in days
    pc,             \* position of the running script ("idle": no process)
    mode,           \* which script is running
    explicit_start, \* the start_app_id argument (Null: None)
    limit,          \* the limit argument (Null: None)
    fetch_tags,     \* the fetch_tags argument
    start_app_id,   \* the local start_app_id after resumption
    valid_apps,     \* the worklist of the run, a sequence of app ids
    idx,            \* index into valid_apps of the item being processed
    details,        \* details of the current item
    review_summary, \* review summary of the current item
    tags,           \* tags of the current item
    depth,          \* nested frames of the recursive retry of the current request
    processed, skipped, successful, tags_collected,
    \* history variables (observations of the run, not program state)
    hwm_at_start,   \* highest committed games.app_id when the run started
    after_kill,     \* the run was started after a killed one
    fetched,        \* app ids whose details the run requested
    reported,       \* app ids whose insert_game returned True in the run
    last_resp,      \* the answer to the request of the last step ("none": no request)
    total_games,    \* 03: the catalogue size the run works with (Null: not asked yet)
    current_position, \* 03: the offset of the next batch
    new_records,    \* 03: what merge_staging_to_main returned (Null: not merged)
    max_games,      \* 03: the max_games argument (Null: None)
    batch_count     \* 03: the turns of the paging loop so far

vars == << db, tx, aborted, today, pc, mode, explicit_start, limit, fetch_tags,
           start_app_id,
           valid_apps, idx, details, review_summary, tags, depth,
           processed, skipped, successful, tags_collected,
           hwm_at_start, after_kill, fetched, reported, last_resp,
           total_games, current_position, new_records, max_games, batch_count >>

Sess == [db |-> db, tx |-> tx, aborted |-> aborted]

\* ------------------------------------------------- transaction control
\* conn.commit(): the session's statements become the committed state.  On
\* a transaction in the failed state the server answers COMMIT by rolling
\* back.
Commit(S) ==
    IF S.aborted THEN [db |-> S.db, tx |-> S.db, aborted |-> FALSE]
    ELSE [db |-> S.tx, tx |-> S.tx, aborted |-> FALSE]

\* conn.rollback(), and what conn.close() or the death of the process do to
\* the open transaction.
Rollback(S) == [db |-> S.db, tx |-> S.db, aborted |-> FALSE]

\* a statement that raised: the transaction is now in the failed state
Failed(S) == [db |-> S.db, tx |-> S.tx, aborted |-> TRUE]

\* a handler's return: the session it leaves and the value it returns
WithRet(S, r) ==
    [db |-> S.db, tx |-> S.tx, aborted |-> S.aborted, ret |-> r, raised |-> FALSE]

\* The connection dropped during a statement: the statement raises and, in the
\* handler's except clause, conn.rollback() raises too ("connection already
\* closed"), so the exception leaves the handler.  The server has discarded
\* the transaction.
Raised(S) ==
    [db |-> S.db, tx |-> S.db, aborted |-> FALSE, ret |-> FALSE, raised |-> TRUE]

\* ---------------------------------------------- SupabasePipeline (01/04)
\* Variant for comparison: SELECT COUNT(app_id) in place of MAX(app_id)
get_highest_app_id_count(S, fault) ==
    IF S.aborted \/ fault
    THEN WithRet(Failed(S), 0)
    ELSE WithRet(S, Cardinality(Keys(S.tx.games)))

\* SELECT MAX(app_id) FROM games; 0 when the table is empty and 0 when the
\* query raises.
get_highest_app_id(S, fault) ==
    IF S.aborted \/ fault
    THEN WithRet(Failed(S), 0)
    ELSE WithRet(S, SetMax(Keys(S.tx.games)))

\* ------------------------------------------- normalisation in insert_game
DecimalDigits == << "0", "1", "2", "3", "4", "5", "6", "7", "8", "9" >>

\* str.isdigit, for one ASCII character
isdigit(c) == \E i \in 1..Len(DecimalDigits) : DecimalDigits[i] = c

RECURSIVE int(_)
\* int(digits) for a non-empty string of decimal digits
int(digits) ==
    IF digits = <<>> THEN 0
    ELSE 10 * int(SubSeq(digits, 1, Len(digits) - 1))
             + (CHOOSE v \in 0..9 : DecimalDigits[v + 1] = digits[Len(digits)])

\* safe_int_convert: None for None; for a str the int of its digit characters,
\* None when it has none; else int(value), None when that raises ValueError
\* (nan) or TypeError (a list).  int(inf) raises OverflowError, which the
\* except clause does not name.
safe_int_convert(value) ==
    CASE value.kind = "none" -> PyNone
      [] value.kind = "str" ->
             LET digits == SelectSeq(value.s, isdigit)
             IN  IF digits # <<>> THEN PyInt(int(digits)) ELSE PyNone
      [] value.kind = "int" -> value
      [] value.kind = "float" -> PyInt(value.n)
      [] value.kind = "nan" -> PyNone
      [] value.kind = "list" -> PyNone
      [] value.kind = "inf" -> PyRaise

\* dict.get(key, default) over a dict's entries
Get(entries, key, default) ==
    IF \E i \in 1..Len(entries) : entries[i][1] = key
    THEN entries[CHOOSE i \in 1..Len(entries) : entries[i][1] = key][2]
    ELSE default

\* min_reqs and rec_reqs of insert_game: pc_requirements defaults to {} when
\* the key is missing; a dict gives its 'minimum' and 'recommended' entries, a
\* list its first and second elements, anything else leaves ''.
min_reqs(pc_reqs) ==
    CASE pc_reqs.kind \in {"missing", "dict"} -> Get(pc_reqs.entries, "minimum", "")
      [] pc_reqs.kind = "list" ->
             IF Len(pc_reqs.items) > 0 THEN pc_reqs.items[1] ELSE ""
      [] OTHER -> ""

\* Variant for comparison: `pc_reqs[0] if len(pc_reqs) > 1` for the second part
rec_reqs_first(pc_reqs) ==
    CASE pc_reqs.kind \in {"missing", "dict"} -> Get(pc_reqs.entries, "recommended", "")
      [] pc_reqs.kind = "list" ->
             IF Len(pc_reqs.items) > 1 THEN pc_reqs.items[1] ELSE ""
      [] OTHER -> ""

rec_reqs(pc_reqs) ==
    CASE pc_reqs.kind \in {"missing", "dict"} -> Get(pc_reqs.entries, "recommended", "")
      [] pc_reqs.kind = "list" ->
             IF Len(pc_reqs.items) > 1 THEN pc_reqs.items[2] ELSE ""
      [] OTHER -> ""

\* details.get(key, {}).get(...) raises AttributeError when the key is there
\* with a value that is not a dict (the default {} only replaces a missing key).
AttributeError(c) == c.kind \notin {"missing", "dict"}

\* Building the parameters of the INSERT raises: the exception is caught by
\* insert_game's except clause.
NormRaises(d) ==
    \/ safe_int_convert(d.required_age) = PyRaise
    \/ AttributeError(d.metacritic)
    \/ AttributeError(d.recommendations)

\* The column values insert_game binds to the INSERT.
GameRow(d, rs, now) ==
    [ type |-> d.type,
      coming_soon |-> d.coming_soon,
      price_overview |-> d.price,
      is_free |-> d.is_free,
      required_age |-> safe_int_convert(d.required_age),
      metacritic |-> Get(d.metacritic.entries, "score", Null),
      recommendations |-> Get(d.recommendations.entries, "total", Null),
      minimum_requirements |-> min_reqs(d.pc_requirements),
      recommended_requirements |-> rec_reqs(d.pc_requirements),
      total_reviews |-> rs,
      last_updated |-> now ]

PriceRow(app_id, d) == [app_id |-> app_id, final |-> d.price]

InsertFaults == {"none", "games", "price", "commit", "lost"}

\* Variant for comparison: insert_game with a commit after each of the two statements
insert_game_commit_each(S, app_id, d, rs, now, fault) ==
    IF S.aborted \/ fault = "games" \/ NormRaises(d)
    THEN WithRet(Rollback(S), FALSE)
    ELSE LET s1 == Commit([S EXCEPT !.tx.games =
                               UpsertRow(@, app_id, GameRow(d, rs, now))])
         IN  IF d.price # NoPrice /\ fault = "price"
             THEN WithRet(Rollback(s1), FALSE)
             ELSE LET s2 == IF d.price # NoPrice
                            THEN [s1 EXCEPT !.tx.price_history =
                                                Append(@, PriceRow(app_id, d))]
                            ELSE s1
                  IN  IF fault = "commit"
                      THEN WithRet(Rollback(s2), FALSE)
                      ELSE WithRet(Commit(s2), TRUE)

\* Variant for comparison: insert_game that records a price only when it differs from the
\* rows already in price_history
insert_game_dedup_price(S, app_id, d, rs, now, fault) ==
    IF S.aborted \/ fault = "games" \/ NormRaises(d)
    THEN WithRet(Rollback(S), FALSE)
    ELSE LET s1 == [S EXCEPT !.tx.games = UpsertRow(@, app_id, GameRow(d, rs, now))]
         IN  IF d.price # NoPrice /\ fault = "price"
             THEN WithRet(Rollback(s1), FALSE)
             ELSE LET s2 == IF d.price # NoPrice
                               /\ \A i \in 1..Len(s1.tx.price_history) :
                                      s1.tx.price_history[i] # PriceRow(app_id, d)
                            THEN [s1 EXCEPT !.tx.price_history =
                                                Append(@, PriceRow(app_id, d))]
                            ELSE s1
                  IN  IF fault = "commit"
                      THEN WithRet(Rollback(s2), FALSE)
                      ELSE WithRet(Commit(s2), TRUE)

\* Variant for comparison: insert_game that keeps one price_history row per app
\* (the new price overwrites the app's earlier row)
insert_game_replace_price(S, app_id, d, rs, now, fault) ==
    IF fault = "lost"
    THEN Raised(S)
    ELSE
    IF S.aborted \/ fault = "games" \/ NormRaises(d)
    THEN WithRet(Rollback(S), FALSE)
    ELSE LET s1 == [S EXCEPT !.tx.games = UpsertRow(@, app_id, GameRow(d, rs, now))]
         IN  IF d.price # NoPrice /\ fault = "price"
             THEN WithRet(Rollback(s1), FALSE)
             ELSE LET old == s1.tx.price_history
                      s2 == IF d.price # NoPrice
                            THEN [s1 EXCEPT !.tx.price_history =
                                      IF \E i \in 1..Len(old) : old[i].app_id = app_id
                                      THEN [i \in 1..Len(old) |->
                                               IF old[i].app_id = app_id
                                               THEN PriceRow(app_id, d)
                                               ELSE old[i]]
                                      ELSE Append(old, PriceRow(app_id, d))]
                            ELSE s1
                  IN  IF fault = "commit"
                      THEN WithRet(Rollback(s2), FALSE)
                      ELSE WithRet(Commit(s2), TRUE)

\* Variant for comparison: insert_game without `if 'price_overview' in details`
\* (a price_history row for every payload)
insert_game_always_price(S, app_id, d, rs, now, fault) ==
    IF fault = "lost"
    THEN Raised(S)
    ELSE
    IF S.aborted \/ fault = "games" \/ NormRaises(d)
    THEN WithRet(Rollback(S), FALSE)
    ELSE LET s1 == [S EXCEPT !.tx.games = UpsertRow(@, app_id, GameRow(d, rs, now))]
         IN  IF fault = "price"
             THEN WithRet(Rollback(s1), FALSE)
             ELSE LET s2 == [s1 EXCEPT !.tx.price_history =
                                           Append(@, PriceRow(app_id, d))]
                  IN  IF fault = "commit"
                      THEN WithRet(Rollback(s2), FALSE)
                      ELSE WithRet(Commit(s2), TRUE)

\* insert_game: the upsert of the games row, the price_history row when the
\* payload has a price_overview, one commit; any exception rolls back and
\* returns False.
insert_game(S, app_id, d, rs, now, fault) ==
    IF fault = "lost"
    THEN Raised(S)
    ELSE
    IF S.aborted \/ fault = "games" \/ NormRaises(d)
    THEN WithRet(Rollback(S), FALSE)
    ELSE LET s1 == [S EXCEPT !.tx.games = UpsertRow(@, app_id, GameRow(d, rs, now))]
         IN  IF d.price # NoPrice /\ fault = "price"
             THEN WithRet(Rollback(s1), FALSE)
             ELSE LET s2 == IF d.price # NoPrice
                            THEN [s1 EXCEPT !.tx.price_history =
                                                Append(@, PriceRow(app_id, d))]
                            ELSE s1
                  IN  IF fault = "commit"
                      THEN WithRet(Rollback(s2), FALSE)
                      ELSE WithRet(Commit(s2), TRUE)

\* insert_game_tags: executemany INSERT ... ON CONFLICT DO NOTHING; no
\* commit, and no rollback when it raises.
insert_game_tags(S, app_id, tg, fault) ==
    IF tg = <<>>
    THEN WithRet(S, TRUE)
    ELSE IF S.aborted \/ fault
         THEN WithRet(Failed(S), FALSE)
         ELSE WithRet([S EXCEPT !.tx.game_tags =
                           @ \cup { <<app_id, tg[i]>> : i \in 1..Len(tg) }], TRUE)

\* --------------------------------------------------- SupabasePipeline (04)
\* create_games_checking_table: CREATE TABLE IF NOT EXISTS, commit; False
\* (without a rollback) when it raises.
create_games_checking_table(S, fault) ==
    IF S.aborted \/ fault
    THEN WithRet(Failed(S), FALSE)
    ELSE WithRet(Commit(S), TRUE)

\* Variant for comparison: a window closed a day early (<= in place of <)
Stale_inclusive(row, now) ==
    row.coming_soon /\ row.last_updated <= now - StalenessDays

\* WHERE (release_date::jsonb->>'coming_soon')::boolean = true
\*   AND last_updated < (current_date - interval '7 days')
Stale(row, now) == row.coming_soon /\ row.last_updated < now - StalenessDays

RECURSIVE OrderByLastUpdated(_, _)
\* ORDER BY last_updated ASC (rows of equal last_updated by app_id)
OrderByLastUpdated(t, ks) ==
    IF ks = {} THEN <<>>
    ELSE LET m == CHOOSE x \in ks : \A y \in ks :
                      \/ t[x].last_updated < t[y].last_updated
                      \/ t[x].last_updated = t[y].last_updated /\ x <= y
         IN  <<m>> \o OrderByLastUpdated(t, ks \ {m})

Range(s) == { s[i] : i \in 1..Len(s) }

\* SELECT app_id FROM games WHERE coming_soon AND last_updated <
\* current_date - 7 days ORDER BY last_updated LIMIT 1000
SelectStale(t, now, batch) ==
    Range(Prefix(OrderByLastUpdated(t, { k \in Keys(t) : Stale(t[k], now) }), batch))

app_ids_to_move(t, now) == SelectStale(t, now, MaxBatch)

SweepFaults == {"none", "select", "replica", "insert", "delete", "default", "commit"}

\* Variant for comparison: the sweep without its second SET
\* session_replication_role
move_without_restore(S, now, fault) ==
    IF S.aborted \/ fault = "select"
    THEN WithRet(Rollback(S), 0)
    ELSE LET ids == app_ids_to_move(S.tx.games, now)
         IN  IF ids = {}
             THEN WithRet(S, 0)
             ELSE IF \/ fault \in {"replica", "insert", "delete", "default", "commit"}
                     \/ ids \cap Keys(S.tx.checking) # {}
                  THEN WithRet(Rollback(S), 0)
                  ELSE LET s0 == [S EXCEPT !.tx.role = "replica"]
                           s1 == [s0 EXCEPT !.tx.checking =
                                      [k \in Keys(@) \cup ids |->
                                          IF k \in ids THEN S.tx.games[k] ELSE @[k]]]
                           s2 == [s1 EXCEPT !.tx.games = DeleteKeys(@, ids)]
                       IN  WithRet(Commit(s2), Cardinality(ids))

\* Variant for comparison: the sweep whose DELETE FROM games has no WHERE clause
move_delete_all(S, now, fault) ==
    IF S.aborted \/ fault = "select"
    THEN WithRet(Rollback(S), 0)
    ELSE LET ids == app_ids_to_move(S.tx.games, now)
         IN  IF ids = {}
             THEN WithRet(S, 0)
             ELSE IF \/ fault \in {"replica", "insert", "delete", "default", "commit"}
                     \/ ids \cap Keys(S.tx.checking) # {}
                  THEN WithRet(Rollback([S EXCEPT !.tx.role = "replica"]), 0)
                  ELSE LET s0 == [S EXCEPT !.tx.role = "replica"]
                           s1 == [s0 EXCEPT !.tx.checking =
                                      [k \in Keys(@) \cup ids |->
                                          IF k \in ids THEN S.tx.games[k] ELSE @[k]]]
                           s2 == [s1 EXCEPT !.tx.games = <<>>]
                           s3 == [s2 EXCEPT !.tx.role = "origin"]
                       IN  WithRet(Commit(s3), Cardinality(ids))

\* move_coming_soon_games_to_checking_table.  The INSERT also raises when a
\* selected app_id is already a row of games_checking_for_updates (its primary
\* key).  Any exception: rollback, return 0.  role is the session's
\* session_replication_role ("replica": foreign keys not enforced): a SET
\* made in a transaction is undone when the transaction is rolled back, and
\* the SET ... = DEFAULT of the except clause fails on a failed transaction.
move_coming_soon_games_to_checking_table(S, now, fault) ==
    IF S.aborted \/ fault = "select"
    THEN WithRet(Rollback(S), 0)
    ELSE LET ids == app_ids_to_move(S.tx.games, now)
         IN  IF ids = {}
             THEN WithRet(S, 0)
             ELSE IF \/ fault \in {"replica", "insert", "delete", "default", "commit"}
                     \/ ids \cap Keys(S.tx.checking) # {}
                  THEN WithRet(Rollback([S EXCEPT !.tx.role = "replica"]), 0)
                  ELSE LET s0 == [S EXCEPT !.tx.role = "replica"]
                           s1 == [s0 EXCEPT !.tx.checking =
                                      [k \in Keys(@) \cup ids |->
                                          IF k \in ids THEN S.tx.games[k] ELSE @[k]]]
                           s2 == [s1 EXCEPT !.tx.games = DeleteKeys(@, ids)]
                           s3 == [s2 EXCEPT !.tx.role = "origin"]
                       IN  WithRet(Commit(s3), Cardinality(ids))

\* get_games_to_check: SELECT app_id, name FROM games_checking_for_updates
\* ORDER BY app_id; [] when it raises.
get_games_to_check(S, fault) ==
    IF S.aborted \/ fault
    THEN WithRet(Failed(S), <<>>)
    ELSE WithRet(S, SortedSeq(Keys(S.tx.checking)))

\* Variant for comparison: a DELETE without its WHERE clause
remove_checked_game_all(S, k, fault) ==
    IF S.aborted \/ fault
    THEN WithRet(Failed(S), FALSE)
    ELSE WithRet(Commit([S EXCEPT !.tx.checking = <<>>]), TRUE)

\* remove_checked_game: DELETE FROM games_checking_for_updates, commit; False
\* (without a rollback) when it raises.
remove_checked_game(S, k, fault) ==
    IF S.aborted \/ fault
    THEN WithRet(Failed(S), FALSE)
    ELSE WithRet(Commit([S EXCEPT !.tx.checking = DeleteKeys(@, {k})]), TRUE)

\* --------------------------------------------------- SupabasePipeline (02)
\* What get_game_tags may find on a store page in a later run.
NewTagSamples == { <<>>, <<"indie">>, <<"indie", "co-op", "indie">> }

\* The orders ORDER BY release_date_actual DESC may give: release_date_actual
\* is written by another script, so any sequence without repeats.
Orders(ks) ==
    { q \in UNION { [1..n -> ks] : n \in 0..Cardinality(ks) } :
          \A i, j \in 1..Len(q) : i # j => q[i] # q[j] }

\* get_recent_games: the app_ids of the rows of type 'game' released within
\* days_back days, latest first; [] (without a rollback) when it raises.
RecentChoices(t) == Orders({ k \in Keys(t) : t[k].type = GameKind })

get_recent_games(S, recent, fault) ==
    IF S.aborted \/ fault
    THEN WithRet(Failed(S), <<>>)
    ELSE WithRet(S, recent)

ReviewFaults == {"none", "update", "commit", "lost"}

\* Variant for comparison: an upsert in place of the UPDATE
update_game_reviews_upsert(S, app_id, rs, now, fault) ==
    IF fault = "lost"
    THEN Raised(S)
    ELSE IF S.aborted \/ fault = "update"
         THEN WithRet(Rollback(S), FALSE)
         ELSE LET row == IF app_id \in Keys(S.tx.games)
                         THEN [S.tx.games[app_id] EXCEPT !.total_reviews = rs,
                                                         !.last_updated = now]
                         ELSE GameRow(BaseDetails, rs, now)
                  s1 == [S EXCEPT !.tx.games = UpsertRow(@, app_id, row)]
              IN  IF fault = "commit"
                  THEN WithRet(Rollback(s1), FALSE)
                  ELSE WithRet(Commit(s1), TRUE)

\* update_game_reviews: UPDATE games SET <review columns>, last_updated WHERE
\* app_id; commit and True when a row matched, False with neither commit nor
\* rollback when none did; an exception rolls back and returns False.
update_game_reviews(S, app_id, rs, now, fault) ==
    IF fault = "lost"
    THEN Raised(S)
    ELSE IF S.aborted \/ fault = "update"
         THEN WithRet(Rollback(S), FALSE)
         ELSE IF app_id \notin Keys(S.tx.games)
              THEN WithRet(S, FALSE)
              ELSE LET s1 == [S EXCEPT !.tx.games[app_id].total_reviews = rs,
                                       !.tx.games[app_id].last_updated = now]
                   IN  IF fault = "commit"
                       THEN WithRet(Rollback(s1), FALSE)
                       ELSE WithRet(Commit(s1), TRUE)

\* Variant for comparison: update_game_tags without its DELETE
update_game_tags_keep(S, app_id, tg, fault) ==
    IF tg = <<>>
    THEN WithRet(S, TRUE)
    ELSE IF S.aborted \/ fault
         THEN WithRet(Rollback(S), FALSE)
         ELSE WithRet([S EXCEPT !.tx.game_tags =
                           @ \cup { <<app_id, tg[i]>> : i \in 1..Len(tg) }], TRUE)

\* update_game_tags: nothing for an empty list; else DELETE FROM game_tags
\* WHERE app_id, executemany INSERT ... ON CONFLICT DO NOTHING; no commit; an
\* exception rolls back and returns False.
update_game_tags(S, app_id, tg, fault) ==
    IF tg = <<>>
    THEN WithRet(S, TRUE)
    ELSE IF S.aborted \/ fault
         THEN WithRet(Rollback(S), FALSE)
         ELSE WithRet([S EXCEPT !.tx.game_tags =
                           { p \in @ : p[1] # app_id }
                               \cup { <<app_id, tg[i]>> : i \in 1..Len(tg) }], TRUE)

\* --------------------------------------------------- SupabasePipeline (07)
\* SELECT COUNT(*) FROM games WHERE coming_soon; 0 when it raises.
get_total_coming_soon_count(S, fault) ==
    IF S.aborted \/ fault
    THEN WithRet(Failed(S), 0)
    ELSE WithRet(S, Cardinality({ k \in Keys(S.tx.games) : S.tx.games[k].coming_soon }))

\* get_all_coming_soon_games: SELECT ... FROM games WHERE coming_soon ORDER BY
\* app_id LIMIT batch_size OFFSET offset; [] when it raises.
get_all_coming_soon_games(S, batch, offset, fault) ==
    IF S.aborted \/ fault
    THEN WithRet(Failed(S), <<>>)
    ELSE LET rows == SortedSeq({ k \in Keys(S.tx.games) : S.tx.games[k].coming_soon })
         IN  WithRet(S, IF offset >= Len(rows) THEN <<>>
                        ELSE Prefix(SubSeq(rows, offset + 1, Len(rows)), batch))

\* update_game_data: UPDATE games SET <every column>, last_updated WHERE
\* app_id, with the normalisation of insert_game; commit and True when a row
\* matched, False without commit when none did; an exception rolls back and
\* returns False.
update_game_data(S, app_id, d, rs, now, fault) ==
    IF fault = "lost"
    THEN Raised(S)
    ELSE IF S.aborted \/ fault = "update" \/ NormRaises(d)
         THEN WithRet(Rollback(S), FALSE)
         ELSE IF app_id \notin Keys(S.tx.games)
              THEN WithRet(S, FALSE)
              ELSE LET s1 == [S EXCEPT !.tx.games[app_id] = GameRow(d, rs, now)]
                   IN  IF fault = "commit"
                       THEN WithRet(Rollback(s1), FALSE)
                       ELSE WithRet(Commit(s1), TRUE)

\* ------------------------------------------- MassiveNintendoPipeline (03)
\* What the search endpoint delivers.  A doc carries its natural key (fs_id,
\* change_date, title), here one number, and the rest of its fields, here
\* payload; BadDoc is a doc on which parse_game_doc raises.
batch_size == 100
NKeys == 1..MaxNKey
Docs == [key : NKeys, payload : 1..MaxPayload]
BadDoc == [key |-> 0, payload |-> 0]
NoGame == [key |-> Null, payload |-> Null]

\* the max_games argument of collect_all_games: None, or a number of games
MaxGamesSamples == {Null, 0, 1}

\* get_total_games_count's result: numFound, 0 when the request fails
TotalSamples == {0, batch_size, batch_size + 1}

\* get_games_batch's result: the docs of one page, [] when the request fails
BatchSamples ==
    UNION { [1..n -> Docs \cup {BadDoc}] : n \in 0..MaxBatchDocs }

\* parse_game_doc: the game_data dict of a doc, None when building it raises
parse_game_doc(doc) == IF doc = BadDoc THEN NoGame ELSE doc

\* create_games_nintendo_table: CREATE TABLE IF NOT EXISTS (with
\* UNIQUE(fs_id, change_date, title)), the indexes, commit; rollback and False
\* when it raises.
create_games_nintendo_table(S, fault) ==
    IF S.aborted \/ fault
    THEN WithRet(Rollback(S), FALSE)
    ELSE WithRet(Commit(S), TRUE)

StagingFaults == {"none", "drop", "create"}

\* create_staging_table: DROP TABLE IF EXISTS, commit, CREATE TABLE, commit;
\* rollback and False when a statement raises.
create_staging_table(S, fault) ==
    IF S.aborted \/ fault = "drop"
    THEN WithRet(Rollback(S), FALSE)
    ELSE LET s1 == Commit([S EXCEPT !.tx.staging_exists = FALSE,
                                    !.tx.staging = <<>>])
         IN  IF fault = "create"
             THEN WithRet(Rollback(s1), FALSE)
             ELSE WithRet(Commit([s1 EXCEPT !.tx.staging_exists = TRUE]), TRUE)

\* insert_game_to_staging: one INSERT; no commit, and no rollback when it
\* raises.
insert_game_to_staging(S, game_data, fault) ==
    IF S.aborted \/ fault \/ ~S.tx.staging_exists
    THEN WithRet(Failed(S), FALSE)
    ELSE WithRet([S EXCEPT !.tx.staging = Append(@, game_data)], TRUE)

\* the rows of games_nintendo_staging s for which NOT EXISTS (SELECT 1 FROM
\* games_nintendo m WHERE m.fs_id = s.fs_id AND m.change_date = s.change_date
\* AND m.title = s.title), in the order staged
NotInMain(staged, main) ==
    SelectSeq(staged, LAMBDA r : \A m \in main : m.key # r.key)

MergeFaults == {"none", "insert", "commit"}

\* Variant for comparison: a merge that replaces the rows of the main table
\* whose key is staged (ON CONFLICT DO UPDATE in place of NOT EXISTS)
merge_staging_to_main_upsert(S, fault) ==
    IF S.aborted \/ fault \in {"insert", "commit"} \/ ~S.tx.staging_exists
    THEN WithRet(Rollback(S), 0)
    ELSE LET staged == S.tx.staging
             skeys == { staged[i].key : i \in 1..Len(staged) }
             last(k) == staged[CHOOSE i \in 1..Len(staged) :
                                  /\ staged[i].key = k
                                  /\ \A j \in 1..Len(staged) :
                                         staged[j].key = k => j <= i]
         IN  WithRet(Commit([S EXCEPT !.tx.games_nintendo =
                                 { m \in @ : m.key \notin skeys }
                                     \cup { last(k) : k \in skeys }]),
                     Len(staged))

\* merge_staging_to_main: INSERT INTO games_nintendo ... SELECT the staged
\* rows whose key is not in games_nintendo; the statement raises when two of
\* the selected rows have the same key (UNIQUE(fs_id, change_date, title));
\* rowcount, commit; rollback and 0 when anything raises.
merge_staging_to_main(S, fault) ==
    IF S.aborted \/ fault = "insert" \/ ~S.tx.staging_exists
    THEN WithRet(Rollback(S), 0)
    ELSE LET new == NotInMain(S.tx.staging, S.tx.games_nintendo)
         IN  IF \E i, j \in 1..Len(new) : i # j /\ new[i].key = new[j].key
             THEN WithRet(Rollback(S), 0)
             ELSE IF fault = "commit"
                  THEN WithRet(Rollback(S), 0)
                  ELSE WithRet(Commit([S EXCEPT !.tx.games_nintendo =
                                          @ \cup Range(new)]), Len(new))

\* ------------------------------------------------------------ helpers
\* valid_apps of update_steam_data_to_supabase: filter, sort, limit
ValidApps(apps, start, lim) ==
    LET sorted == SortedSeq({a \in apps : a >= start})
    IN  IF lim # Null /\ lim # 0 THEN Prefix(sorted, lim) ELSE sorted

Running == pc \notin {"idle", "done", "failed", "killed"}

cur_app == valid_apps[idx]

SetSess(r) == /\ db' = r.db
              /\ tx' = r.tx
              /\ aborted' = r.aborted

\* pipeline.disconnect(): closing the connection discards the open transaction
Disconnect == SetSess(Rollback(Sess))

Item == << details, review_summary, tags, depth >>
Counters == << processed, skipped, successful, tags_collected >>
Worklist == << start_app_id, valid_apps, idx >>
Args == << mode, explicit_start, limit, fetch_tags, max_games >>
Hist == << hwm_at_start, after_kill, fetched, reported >>
Store == << db, tx, aborted >>
Bulk == << total_games, current_position, new_records, batch_count >>

\* The appdetails payloads the source may deliver now: a priced payload only
\* while price_history has room (the cap that keeps the model finite).
DetailChoices == { d \in DetailSamples :
                     d.price = NoPrice \/ Len(db.price_history) < MaxPriceRows }

\* The payloads the normalisation is checked with: BaseDetails without a
\* price_overview, one field at a time taking each of the values below.
AgeChars == {"1", "7", "+", "M"}
AgeSamples ==
    { PyNone, PyInt(21), PyVal("float", 21, <<>>), PyVal("nan", 0, <<>>), PyInf,
      PyVal("list", 0, <<>>) }
        \cup { PyStr(s) : s \in UNION { [1..n -> AgeChars] : n \in 0..MaxAgeLen } }
ReqSamples ==
    { Missing, Container("null", <<>>, <<>>), Container("str", <<>>, <<>>),
      Dict(<<>>),
      Dict(<< <<"minimum", "min">> >>),
      Dict(<< <<"recommended", "rec">> >>),
      Dict(<< <<"minimum", "min">>, <<"recommended", "rec">> >>),
      List(<<>>), List(<<"min">>), List(<<"min", "rec">>) }
BlockSamples(key) ==
    { Missing, Container("null", <<>>, <<>>), List(<<>>), Dict(<<>>),
      Dict(<< <<key, 80>> >>) }
RawBase == [BaseDetails EXCEPT !.price = NoPrice, !.is_free = TRUE]
RawDetailSamples ==
    { [RawBase EXCEPT !.required_age = a] : a \in AgeSamples }
        \cup { [RawBase EXCEPT !.pc_requirements = r] : r \in ReqSamples }
        \cup { [RawBase EXCEPT !.metacritic = m] : m \in BlockSamples("score") }
        \cup { [RawBase EXCEPT !.recommendations = m] : m \in BlockSamples("total") }
        \cup { [BaseDetails EXCEPT !.pc_requirements = Missing] }
RawDetailChoices == { d \in RawDetailSamples :
                        d.price = NoPrice \/ Len(db.price_history) < MaxPriceRows }

\* ------------------------------------------------------------- Init
Init ==
    /\ db = EmptyDb
    /\ tx = EmptyDb
    /\ aborted = FALSE
    /\ today = 0
    /\ pc = "idle"
    /\ mode = "none"
    /\ explicit_start = Null
    /\ limit = Null
    /\ fetch_tags = TRUE
    /\ start_app_id = Null
    /\ valid_apps = <<>>
    /\ idx = 0
    /\ details = NoDetails
    /\ review_summary = Null
    /\ tags = <<>>
    /\ depth = 0
    /\ processed = 0
    /\ skipped = 0
    /\ successful = 0
    /\ tags_collected = 0
    /\ hwm_at_start = 0
    /\ after_kill = FALSE
    /\ fetched = {}
    /\ reported = {}
    /\ last_resp = "none"
    /\ total_games = Null
    /\ current_position = 0
    /\ new_records = Null
    /\ max_games = Null
    /\ batch_count = 0

\* A new process: fresh locals, and what the run observes of the store
NewRun ==
    /\ ~Running
    /\ start_app_id' = Null
    /\ valid_apps' = <<>>
    /\ idx' = 0
    /\ details' = NoDetails
    /\ review_summary' = Null
    /\ tags' = <<>>
    /\ depth' = 0
    /\ processed' = 0
    /\ skipped' = 0
    /\ successful' = 0
    /\ tags_collected' = 0
    /\ hwm_at_start' = SetMax(Keys(db.games))
    /\ after_kill' = (pc = "killed")
    /\ fetched' = {}
    /\ reported' = {}
    /\ total_games' = Null
    /\ current_position' = 0
    /\ new_records' = Null
    /\ batch_count' = 0
    /\ UNCHANGED << Store, today >>

\* Variant for comparison: a driver that goes on after a failed connect
connect_unchecked(ok, first) ==
    /\ pc' = first
    /\ last_resp' = IF ok THEN "none" ELSE "refused"

\* `if not pipeline.connect(): return`: psycopg2.connect succeeds and the
\* driver enters its try block at `first`, or it raises, connect returns False
\* and the function returns.
connect(ok, first) ==
    /\ pc' = IF ok THEN first ELSE "failed"
    /\ last_resp' = IF ok THEN "none" ELSE "refused"

\* The exit status of the process: every path of the drivers returns to
\* __main__, which ends without sys.exit; only a killed process reports a
\* status other than 0.
ExitStatus == IF pc = "killed" THEN 1 ELSE 0

\* ---------------------------------- 01: update_steam_data_to_supabase
\* The process starts; pipeline.connect() succeeds or fails.  A failed
\* connect returns before the try block: nothing else runs.
StartAppend(s, l, ft, connected) ==
    /\ NewRun
    /\ mode' = "append"
    /\ max_games' = Null
    /\ explicit_start' = s
    /\ limit' = l
    /\ fetch_tags' = ft
    /\ connect(connected, "resume")

\* start_app_id = get_highest_app_id() + 1 unless the caller gave one
ResumeCursor(fault) ==
    /\ pc = "resume"
    /\ IF explicit_start = Null
       THEN LET r == get_highest_app_id(Sess, fault)
            IN  /\ start_app_id' = r.ret + 1
                /\ SetSess(r)
       ELSE /\ start_app_id' = explicit_start
            /\ fault = FALSE
            /\ UNCHANGED Store
    /\ pc' = "list"
    /\ UNCHANGED << today, Args, Bulk, valid_apps, idx, Item, Counters, Hist >>
    /\ last_resp' = "none"

\* get_app_list, then filter / sort / limit.  No list (a non-200 answer or an
\* exception), an empty list or no app at or past the cursor end the run.
GetAppList(apps) ==
    /\ pc = "list"
    /\ LET va == ValidApps(apps, start_app_id, limit)
       IN  IF va = <<>>
           THEN /\ pc' = "done"
                /\ Disconnect
                /\ UNCHANGED << valid_apps, idx >>
           ELSE /\ pc' = "details"
                /\ valid_apps' = va
                /\ idx' = 1
                /\ UNCHANGED Store
    /\ UNCHANGED << today, Args, Bulk, start_app_id, Item, Counters, Hist >>
    /\ last_resp' = "none"

\* The end of one iteration of the for loop, the session being S: the next
\* item, or the end of the run (the summary, then finally:
\* pipeline.disconnect()).
NextItem(S) ==
    /\ details' = NoDetails
    /\ review_summary' = Null
    /\ tags' = <<>>
    /\ depth' = 0
    /\ IF idx < Len(valid_apps)
       THEN /\ idx' = idx + 1
            /\ pc' = "details"
            /\ SetSess(S)
       ELSE /\ idx' = idx
            /\ pc' = "done"
            /\ SetSess(Rollback(S))

\* Variant for comparison: a skip that leaves the loop: `skipped += 1; processed += 1; break`
SkipItem_break ==
    /\ skipped' = skipped + 1
    /\ processed' = processed + 1
    /\ details' = NoDetails
    /\ review_summary' = Null
    /\ tags' = <<>>
    /\ depth' = 0
    /\ idx' = idx
    /\ pc' = "done"
    /\ SetSess(Rollback(Sess))

\* `skipped += 1; processed += 1; continue`
SkipItem ==
    /\ skipped' = skipped + 1
    /\ processed' = processed + 1
    /\ NextItem(Sess)

\* One answer to the appdetails request of get_app_details, and the driver's
\* `if not details` branch.  A 429 sleeps and calls get_app_details again from
\* inside the try block; past the depth the interpreter's stack admits that
\* call raises RecursionError, which the except clause turns into None.
GetAppDetails(resp, d) ==
    /\ pc = "details"
    /\ fetched' = fetched \cup {cur_app}
    /\ last_resp' = resp
    /\ CASE resp = "throttled" /\ depth < MaxRetryDepth ->
                /\ depth' = depth + 1
                /\ UNCHANGED << pc, idx, details, review_summary, tags,
                                skipped, processed, Store >>
         [] resp = "throttled" /\ depth >= MaxRetryDepth -> SkipItem
         [] resp = "failed" -> SkipItem
         [] resp = "ok" ->
                /\ depth' = 0
                /\ details' = d
                /\ pc' = IF mode = "append" THEN "kind" ELSE "reviews"
                /\ UNCHANGED << idx, review_summary, tags, skipped, processed, Store >>
    /\ UNCHANGED << today, Args, Bulk, start_app_id, valid_apps, successful, tags_collected,
                    hwm_at_start, after_kill, reported >>

\* 01 only: `if app_type not in ['game']: skipped += 1; processed += 1; continue`
CheckKind ==
    /\ pc = "kind"
    /\ last_resp' = "none"
    /\ IF details.type # GameKind
       THEN SkipItem
       ELSE /\ pc' = "reviews"
            /\ UNCHANGED << idx, Item, skipped, processed, Store >>
    /\ UNCHANGED << today, Args, Bulk, start_app_id, valid_apps, successful, tags_collected,
                    Hist >>

\* One answer to the appreviews request of get_review_summary; {} on any
\* failure.
GetReviewSummary(resp, rs) ==
    /\ pc = "reviews"
    /\ last_resp' = resp
    /\ CASE resp = "throttled" /\ depth < MaxRetryDepth ->
                /\ depth' = depth + 1
                /\ UNCHANGED << pc, review_summary >>
         [] resp = "throttled" /\ depth >= MaxRetryDepth ->
                /\ depth' = 0
                /\ review_summary' = Null
                /\ pc' = "upsert"
         [] resp = "failed" ->
                /\ depth' = 0
                /\ review_summary' = Null
                /\ pc' = "upsert"
         [] resp = "ok" ->
                /\ depth' = 0
                /\ review_summary' = rs
                /\ pc' = "upsert"
    /\ UNCHANGED << Store, today, Args, Bulk, Worklist, details, tags, Counters, Hist >>

\* pipeline.insert_game(...) and the branch on its result.  01 fetches tags
\* when fetch_tags is set, 04 always does.  An exception that leaves insert_game
\* is caught by the driver's `except Exception`: the run ends (finally:
\* pipeline.disconnect()).
InsertGame(fault) ==
    /\ pc = "upsert"
    /\ last_resp' = "none"
    /\ LET r == insert_game(Sess, cur_app, details, review_summary, today, fault)
       IN  IF r.raised
           THEN /\ pc' = "done"
                /\ SetSess(r)
                /\ UNCHANGED << idx, Item, processed, skipped, successful, reported >>
           ELSE
           IF r.ret
           THEN /\ successful' = successful + 1
                /\ reported' = reported \cup {cur_app}
                /\ UNCHANGED skipped
                /\ IF fetch_tags \/ mode = "recheck"
                   THEN /\ pc' = "tags"
                        /\ SetSess(r)
                        /\ UNCHANGED << idx, processed, Item >>
                   ELSE /\ processed' = processed + 1
                        /\ NextItem(r)
           ELSE /\ skipped' = skipped + 1
                /\ processed' = processed + 1
                /\ UNCHANGED << successful, reported >>
                /\ NextItem(r)
    /\ UNCHANGED << today, Args, Bulk, start_app_id, valid_apps, tags_collected,
                    hwm_at_start, after_kill, fetched >>

\* One answer to the store-page request of get_game_tags; [] on any failure
\* and when the page holds no tag.  With tags the driver inserts them; without,
\* 01 ends the iteration and 04 goes on to remove_checked_game.
GetGameTags(resp, tg) ==
    /\ pc = "tags"
    /\ last_resp' = resp
    /\ LET got(t) ==
               IF t # <<>>
               THEN /\ pc' = "inserttags"
                    /\ tags' = t
                    /\ depth' = 0
                    /\ UNCHANGED << idx, processed, Store, details, review_summary >>
               ELSE IF mode = "recheck"
                    THEN /\ pc' = "remove"
                         /\ tags' = t
                         /\ depth' = 0
                         /\ UNCHANGED << idx, processed, Store, details, review_summary >>
                    ELSE /\ processed' = processed + 1
                         /\ NextItem(Sess)
       IN  CASE resp = "throttled" /\ depth < MaxRetryDepth ->
                    /\ depth' = depth + 1
                    /\ UNCHANGED << pc, tags, idx, processed, Store, details,
                                    review_summary >>
             [] resp = "throttled" /\ depth >= MaxRetryDepth -> got(<<>>)
             [] resp = "failed" -> got(<<>>)
             [] resp = "ok" -> got(tg)
    /\ UNCHANGED << today, Args, Bulk, start_app_id, valid_apps, skipped, successful,
                    tags_collected, Hist >>

\* pipeline.insert_game_tags(app_id, tags) and the branch on its result
InsertGameTags(fault) ==
    /\ pc = "inserttags"
    /\ last_resp' = "none"
    /\ LET r == insert_game_tags(Sess, cur_app, tags, fault)
       IN  /\ tags_collected' = IF r.ret THEN tags_collected + Len(tags)
                                ELSE tags_collected
           /\ IF mode = "recheck"
              THEN /\ pc' = "remove"
                   /\ SetSess(r)
                   /\ UNCHANGED << idx, processed, Item >>
              ELSE /\ processed' = processed + 1
                   /\ NextItem(r)
    /\ UNCHANGED << today, Args, Bulk, start_app_id, valid_apps, skipped, successful, Hist >>

\* ------------------------------------- 04: check_coming_soon_updates
StartRecheck(connected) ==
    /\ NewRun
    /\ mode' = "recheck"
    /\ max_games' = Null
    /\ explicit_start' = Null
    /\ limit' = Null
    /\ fetch_tags' = TRUE
    /\ connect(connected, "create")

\* Step 1: create the checking table, or return
CreateCheckingTable(fault) ==
    /\ pc = "create"
    /\ LET r == create_games_checking_table(Sess, fault)
       IN  IF r.ret
           THEN /\ pc' = "sweep"
                /\ SetSess(r)
           ELSE /\ pc' = "done"
                /\ SetSess(Rollback(r))
    /\ UNCHANGED << today, Args, Bulk, Worklist, Item, Counters, Hist >>
    /\ last_resp' = "none"

\* Step 2: move the stale coming-soon games; return when none was moved
Sweep(fault) ==
    /\ pc = "sweep"
    /\ LET r == move_coming_soon_games_to_checking_table(Sess, today, fault)
       IN  IF r.ret = 0
           THEN /\ pc' = "done"
                /\ SetSess(Rollback(r))
           ELSE /\ pc' = "pending"
                /\ SetSess(r)
    /\ UNCHANGED << today, Args, Bulk, Worklist, Item, Counters, Hist >>
    /\ last_resp' = "none"

\* Step 3: the worklist; return when it is empty
GetGamesToCheck(fault) ==
    /\ pc = "pending"
    /\ LET r == get_games_to_check(Sess, fault)
       IN  IF r.ret = <<>>
           THEN /\ pc' = "done"
                /\ SetSess(Rollback(r))
                /\ UNCHANGED << valid_apps, idx >>
           ELSE /\ pc' = "details"
                /\ valid_apps' = r.ret
                /\ idx' = 1
                /\ SetSess(r)
    /\ UNCHANGED << today, Args, Bulk, start_app_id, Item, Counters, Hist >>
    /\ last_resp' = "none"

\* pipeline.remove_checked_game(app_id); its result is ignored
RemoveCheckedGame(fault) ==
    /\ pc = "remove"
    /\ last_resp' = "none"
    /\ LET r == remove_checked_game(Sess, cur_app, fault)
       IN  /\ processed' = processed + 1
           /\ NextItem(r)
    /\ UNCHANGED << today, Args, Bulk, start_app_id, valid_apps, skipped, successful,
                    tags_collected, Hist >>

\* ------------------------------------------- 03: collect_all_games
StartNintendo(m, connected) ==
    /\ NewRun
    /\ mode' = "nintendo"
    /\ max_games' = m
    /\ explicit_start' = Null
    /\ limit' = Null
    /\ fetch_tags' = FALSE
    /\ connect(connected, "n_main")

\* create the main table, or return
CreateMainTable(fault) ==
    /\ pc = "n_main"
    /\ LET r == create_games_nintendo_table(Sess, fault)
       IN  IF r.ret
           THEN /\ pc' = "n_staging"
                /\ SetSess(r)
           ELSE /\ pc' = "done"
                /\ SetSess(Rollback(r))
    /\ UNCHANGED << today, Args, Bulk, Worklist, Item, Counters, Hist >>
    /\ last_resp' = "none"

\* create the staging table, or return
CreateStagingTable(fault) ==
    /\ pc = "n_staging"
    /\ LET r == create_staging_table(Sess, fault)
       IN  IF r.ret
           THEN /\ pc' = "n_count"
                /\ SetSess(r)
           ELSE /\ pc' = "done"
                /\ SetSess(Rollback(r))
    /\ UNCHANGED << today, Args, Bulk, Worklist, Item, Counters, Hist >>
    /\ last_resp' = "none"

\* total_games = get_total_games_count(); return when it is 0;
\* `if max_games: total_games = min(total_games, max_games)`
GetTotalGamesCount(n) ==
    /\ pc = "n_count"
    /\ total_games' = IF n # 0 /\ max_games # Null /\ max_games # 0 /\ max_games < n
                      THEN max_games ELSE n
    /\ last_resp' = IF n = 0 THEN "failed" ELSE "ok"
    /\ IF n = 0
       THEN /\ pc' = "done"
            /\ Disconnect
       ELSE /\ pc' = "n_batch"
            /\ UNCHANGED Store
    /\ UNCHANGED << today, Args, current_position, new_records, batch_count, Worklist, Item,
                    Counters, Hist >>

RECURSIVE StageDocs(_, _, _, _)
\* `for doc in docs`: parse, stage, count; the INSERT of the doc at failAt
\* raises.  The result is the session with, in ret, the numbers of staged and
\* of failed docs.
StageDocs(S, docs, i, failAt) ==
    IF i > Len(docs)
    THEN WithRet(S, [ok |-> 0, failed |-> 0])
    ELSE LET g == parse_game_doc(docs[i])
         IN  IF g = NoGame
             THEN LET rest == StageDocs(S, docs, i + 1, failAt)
                  IN  [rest EXCEPT !.ret.failed = @ + 1]
             ELSE LET r == insert_game_to_staging(S, g, i = failAt)
                      rest == StageDocs([db |-> r.db, tx |-> r.tx,
                                         aborted |-> r.aborted],
                                        docs, i + 1, failAt)
                  IN  IF r.ret
                      THEN [rest EXCEPT !.ret.ok = @ + 1]
                      ELSE [rest EXCEPT !.ret.failed = @ + 1]

\* Variant for comparison: a loop that asks for the same page again when the
\* page came back empty
ProcessBatch_stay_on_empty(docs, failAt) ==
    /\ pc = "n_batch"
    /\ current_position < total_games
    /\ LET r == StageDocs(Sess, docs, 1, failAt)
       IN  /\ SetSess(r)
           /\ successful' = successful + r.ret.ok
           /\ skipped' = skipped + r.ret.failed
           /\ processed' = processed + Len(docs)
    /\ batch_count' = batch_count + 1
    /\ current_position' = IF docs = <<>> THEN current_position
                           ELSE current_position + batch_size
    /\ pc' = IF current_position' < total_games THEN "n_batch" ELSE "n_merge"
    /\ last_resp' = IF docs = <<>> THEN "failed" ELSE "ok"
    /\ UNCHANGED << today, Args, total_games, new_records, Worklist, Item,
                    tags_collected, Hist >>

\* One turn of `while current_position < total_games`: a page of docs, each
\* parsed and staged, then the next offset; an empty page is skipped.  After
\* the last turn the driver goes on to the merge.
ProcessBatch(docs, failAt) ==
    /\ pc = "n_batch"
    /\ current_position < total_games
    /\ LET r == StageDocs(Sess, docs, 1, failAt)
       IN  /\ SetSess(r)
           /\ successful' = successful + r.ret.ok
           /\ skipped' = skipped + r.ret.failed
           /\ processed' = processed + Len(docs)
    /\ batch_count' = batch_count + 1
    /\ current_position' = current_position + batch_size
    /\ pc' = IF current_position + batch_size < total_games
             THEN "n_batch" ELSE "n_merge"
    /\ last_resp' = IF docs = <<>> THEN "failed" ELSE "ok"
    /\ UNCHANGED << today, Args, total_games, new_records, Worklist, Item,
                    tags_collected, Hist >>

\* new_records = merge_staging_to_main()
MergeStaging(fault) ==
    /\ pc = "n_merge"
    /\ LET r == merge_staging_to_main(Sess, fault)
       IN  /\ new_records' = r.ret
           /\ SetSess(r)
    /\ pc' = "n_drop"
    /\ last_resp' = IF fault = "none" THEN "none" ELSE "failed"
    /\ UNCHANGED << today, Args, total_games, current_position, batch_count, Worklist, Item,
                    Counters, Hist >>

\* DROP TABLE IF EXISTS games_nintendo_staging, commit, the summary; an
\* exception goes to the driver's `except Exception`.  Then finally:
\* disconnect.
DropStaging(fault) ==
    /\ pc = "n_drop"
    /\ pc' = "done"
    /\ IF aborted \/ fault
       THEN SetSess(Rollback(Sess))
       ELSE SetSess(Commit([Sess EXCEPT !.tx.staging_exists = FALSE,
                                        !.tx.staging = <<>>]))
    /\ last_resp' = "none"
    /\ UNCHANGED << today, Args, Bulk, Worklist, Item, Counters, Hist >>

\* ------------------------------------- 02: update_recent_game_reviews
StartRefresh(connected) ==
    /\ NewRun
    /\ mode' = "refresh"
    /\ max_games' = Null
    /\ explicit_start' = Null
    /\ limit' = Null
    /\ fetch_tags' = TRUE
    /\ connect(connected, "r_list")

\* recent_games = pipeline.get_recent_games(days_back); return when it is
\* empty.  `processed += 1` opens each iteration.
GetRecentGames(recent, fault) ==
    /\ pc = "r_list"
    /\ LET r == get_recent_games(Sess, recent, fault)
       IN  IF r.ret = <<>>
           THEN /\ pc' = "done"
                /\ SetSess(Rollback(r))
                /\ UNCHANGED << valid_apps, idx, processed >>
           ELSE /\ pc' = "r_reviews"
                /\ valid_apps' = r.ret
                /\ idx' = 1
                /\ processed' = 1
                /\ SetSess(r)
    /\ UNCHANGED << today, Args, Bulk, start_app_id, Item, skipped, successful,
                    tags_collected, Hist >>
    /\ last_resp' = "none"

\* The end of one iteration of `for game in recent_games`, the session being S
NextRecent(S) ==
    /\ details' = NoDetails
    /\ review_summary' = Null
    /\ tags' = <<>>
    /\ depth' = 0
    /\ IF idx < Len(valid_apps)
       THEN /\ idx' = idx + 1
            /\ processed' = processed + 1
            /\ pc' = "r_reviews"
            /\ SetSess(S)
       ELSE /\ idx' = idx
            /\ processed' = processed
            /\ pc' = "done"
            /\ SetSess(Rollback(S))

\* One answer to the appreviews request; without review data the game is
\* counted as failed (skipped).
RefreshReviewSummary(resp, rs) ==
    /\ pc = "r_reviews"
    /\ last_resp' = resp
    /\ LET got(v) ==
               IF v = Null
               THEN /\ skipped' = skipped + 1
                    /\ NextRecent(Sess)
               ELSE /\ review_summary' = v
                    /\ depth' = 0
                    /\ pc' = "r_update"
                    /\ UNCHANGED << idx, processed, skipped, Store, details, tags >>
       IN  CASE resp = "throttled" /\ depth < MaxRetryDepth ->
                    /\ depth' = depth + 1
                    /\ UNCHANGED << pc, idx, processed, skipped, Store, details,
                                    review_summary, tags >>
             [] resp = "throttled" /\ depth >= MaxRetryDepth -> got(Null)
             [] resp = "failed" -> got(Null)
             [] resp = "ok" -> got(rs)
    /\ UNCHANGED << today, Args, Bulk, start_app_id, valid_apps, successful,
                    tags_collected, Hist >>

\* pipeline.update_game_reviews(app_id, review_data) and the branch on its
\* result
UpdateGameReviews(fault) ==
    /\ pc = "r_update"
    /\ last_resp' = "none"
    /\ LET r == update_game_reviews(Sess, cur_app, review_summary, today, fault)
       IN  IF r.raised
           THEN /\ pc' = "done"
                /\ SetSess(r)
                /\ UNCHANGED << idx, Item, processed, skipped, successful, reported >>
           ELSE
           IF r.ret
           THEN /\ successful' = successful + 1
                /\ reported' = reported \cup {cur_app}
                /\ UNCHANGED skipped
                /\ IF fetch_tags
                   THEN /\ pc' = "r_tags"
                        /\ SetSess(r)
                        /\ UNCHANGED << idx, processed, Item >>
                   ELSE NextRecent(r)
           ELSE /\ skipped' = skipped + 1
                /\ UNCHANGED << successful, reported >>
                /\ NextRecent(r)
    /\ UNCHANGED << today, Args, Bulk, start_app_id, valid_apps, tags_collected,
                    hwm_at_start, after_kill, fetched >>

\* One answer to the store-page request; `if tags:` guards the replacement.
RefreshGameTags(resp, tg) ==
    /\ pc = "r_tags"
    /\ last_resp' = resp
    /\ LET got(t) ==
               IF t # <<>>
               THEN /\ pc' = "r_replace"
                    /\ tags' = t
                    /\ depth' = 0
                    /\ UNCHANGED << idx, processed, Store, details, review_summary >>
               ELSE NextRecent(Sess)
       IN  CASE resp = "throttled" /\ depth < MaxRetryDepth ->
                    /\ depth' = depth + 1
                    /\ UNCHANGED << pc, tags, idx, processed, Store, details,
                                    review_summary >>
             [] resp = "throttled" /\ depth >= MaxRetryDepth -> got(<<>>)
             [] resp = "failed" -> got(<<>>)
             [] resp = "ok" -> got(tg)
    /\ UNCHANGED << today, Args, Bulk, start_app_id, valid_apps, skipped, successful,
                    tags_collected, Hist >>

\* pipeline.update_game_tags(app_id, tags) and the branch on its result
UpdateGameTags(fault) ==
    /\ pc = "r_replace"
    /\ last_resp' = "none"
    /\ LET r == update_game_tags(Sess, cur_app, tags, fault)
       IN  /\ tags_collected' = IF r.ret THEN tags_collected + Len(tags)
                                ELSE tags_collected
           /\ NextRecent(r)
    /\ UNCHANGED << today, Args, Bulk, start_app_id, valid_apps, skipped, successful, Hist >>

\* --------------------------------- 07: comprehensive_coming_soon_check
StartComprehensive(connected) ==
    /\ NewRun
    /\ mode' = "comprehensive"
    /\ max_games' = Null
    /\ explicit_start' = Null
    /\ limit' = Null
    /\ fetch_tags' = FALSE
    /\ connect(connected, "c_count")

\* total_games = pipeline.get_total_coming_soon_count(); return when it is 0
GetTotalComingSoonCount(fault) ==
    /\ pc = "c_count"
    /\ LET r == get_total_coming_soon_count(Sess, fault)
       IN  /\ total_games' = r.ret
           /\ IF r.ret = 0
              THEN /\ pc' = "done"
                   /\ SetSess(Rollback(r))
              ELSE /\ pc' = "c_batch"
                   /\ SetSess(r)
    /\ last_resp' = "none"
    /\ UNCHANGED << today, Args, current_position, new_records, batch_count, Worklist, Item,
                    Counters, Hist >>

\* One turn of `while offset < total_games` (current_position is offset): the
\* page at offset; an empty page breaks out of the loop.  `processed += 1`
\* opens each iteration of the for loop.
GetComingSoonBatch(fault) ==
    /\ pc = "c_batch"
    /\ LET r == get_all_coming_soon_games(Sess, CheckBatchSize, current_position,
                                          fault)
       IN  IF r.ret = <<>>
           THEN /\ pc' = "done"
                /\ SetSess(Rollback(r))
                /\ UNCHANGED << valid_apps, idx, processed >>
           ELSE /\ pc' = "c_details"
                /\ valid_apps' = r.ret
                /\ idx' = 1
                /\ processed' = processed + 1
                /\ SetSess(r)
    /\ last_resp' = "none"
    /\ UNCHANGED << today, Args, Bulk, start_app_id, Item, skipped, successful,
                    tags_collected, Hist >>

\* The end of one iteration of the for loop, the session being S: the next
\* game of the page; after the last, offset += batch_size and the next turn
\* of the while loop or the end of the run.
NextChecked(S) ==
    /\ details' = NoDetails
    /\ review_summary' = Null
    /\ tags' = <<>>
    /\ depth' = 0
    /\ IF idx < Len(valid_apps)
       THEN /\ idx' = idx + 1
            /\ processed' = processed + 1
            /\ pc' = "c_details"
            /\ current_position' = current_position
            /\ SetSess(S)
       ELSE /\ idx' = idx
            /\ processed' = processed
            /\ current_position' = current_position + CheckBatchSize
            /\ IF current_position + CheckBatchSize < total_games
               THEN /\ pc' = "c_batch"
                    /\ SetSess(S)
               ELSE /\ pc' = "done"
                    /\ SetSess(Rollback(S))

\* One answer to the appdetails request and the decision should_update: the
\* payload is no longer coming_soon, or (changed) its date differs from the
\* stored one or it is an early-access game with a past date.
CheckAppDetails(resp, d, changed) ==
    /\ pc = "c_details"
    /\ fetched' = fetched \cup {cur_app}
    /\ last_resp' = resp
    /\ LET none == /\ skipped' = skipped + 1
                   /\ NextChecked(Sess)
       IN  CASE resp = "throttled" /\ depth < MaxRetryDepth ->
                    /\ depth' = depth + 1
                    /\ UNCHANGED << pc, idx, details, review_summary, tags, skipped,
                                    processed, current_position, Store >>
             [] resp = "throttled" /\ depth >= MaxRetryDepth -> none
             [] resp = "failed" -> none
             [] resp = "ok" ->
                    IF ~d.coming_soon \/ changed
                    THEN /\ depth' = 0
                         /\ details' = d
                         /\ pc' = "c_update"
                         /\ UNCHANGED << idx, review_summary, tags, skipped, processed,
                                         current_position, Store >>
                    ELSE /\ UNCHANGED skipped
                         /\ NextChecked(Sess)
    /\ UNCHANGED << today, Args, total_games, new_records, batch_count, start_app_id, valid_apps,
                    successful, tags_collected, hwm_at_start, after_kill, reported >>

\* review_summary = {}; pipeline.update_game_data(...) and the branch on its
\* result
UpdateGameData(fault) ==
    /\ pc = "c_update"
    /\ last_resp' = "none"
    /\ LET r == update_game_data(Sess, cur_app, details, Null, today, fault)
       IN  IF r.raised
           THEN /\ pc' = "done"
                /\ SetSess(r)
                /\ UNCHANGED << idx, Item, processed, skipped, successful, reported,
                                current_position >>
           ELSE /\ successful' = IF r.ret THEN successful + 1 ELSE successful
                /\ skipped' = IF r.ret THEN skipped ELSE skipped + 1
                /\ reported' = IF r.ret THEN reported \cup {cur_app} ELSE reported
                /\ NextChecked(r)
    /\ UNCHANGED << today, Args, total_games, new_records, batch_count, start_app_id, valid_apps,
                    tags_collected, hwm_at_start, after_kill, fetched >>

\* Whether the request the script makes next (at pc) comes after a sleep:
\* get_app_details, get_review_summary and get_game_tags begin with
\* time.sleep(random.uniform(0.3, 0.6)), also when they call themselves again
\* after a 429; get_app_list and get_total_games_count request at once;
\* get_games_batch has no sleep of its own, the loop of 03 sleeps at the end
\* of each turn, so every batch but the first comes after one.
delay_before_request ==
    CASE pc \in {"details", "reviews", "tags", "r_reviews", "r_tags", "c_details"} -> TRUE
      [] pc \in {"list", "n_count"} -> FALSE
      [] pc = "n_batch" -> current_position > 0
      [] OTHER -> FALSE

\* ------------------------------------------------------- environment
\* 04 run by another process while 02 or 07 is between two statements and
\* holds no uncommitted write: its sweep commits, and this session sees the
\* committed tables at its next statement.
ConcurrentSweep ==
    /\ Running
    /\ mode \in {"refresh", "comprehensive"}
    /\ tx = db
    /\ ~aborted
    /\ LET r == move_coming_soon_games_to_checking_table(Sess, today, "none")
       IN  /\ r.ret # 0
           /\ SetSess(r)
    /\ last_resp' = "none"
    /\ UNCHANGED << today, pc, Args, Bulk, Worklist, Item, Counters, Hist >>

\* The process is killed: the server discards the open transaction.
Kill ==
    /\ Running
    /\ pc' = "killed"
    /\ SetSess(Rollback(Sess))
    /\ UNCHANGED << today, Args, Bulk, Worklist, Item, Counters, Hist >>
    /\ last_resp' = "none"

\* Time passes in steps of a week (a row synced before it is at the edge of
\* the window) and of a week and a day (it is past the window).
TickDays == {StalenessDays, StalenessDays + 1}

Tick(d) ==
    /\ today + d <= MaxDay
    /\ today' = today + d
    /\ UNCHANGED << Store, pc, Args, Bulk, Worklist, Item, Counters, Hist >>
    /\ last_resp' = "none"

\* ------------------------------------------------------ specifications
\* Every script, every failure, the clock.
Next ==
    \/ \E ft \in BOOLEAN, c \in BOOLEAN : StartAppend(Null, Null, ft, c)
    \/ \E f \in BOOLEAN : ResumeCursor(f)
    \/ \E apps \in SUBSET AppIds : GetAppList(apps)
    \/ \E resp \in Responses, d \in DetailChoices : GetAppDetails(resp, d)
    \/ CheckKind
    \/ \E resp \in Responses, rs \in ReviewSamples : GetReviewSummary(resp, rs)
    \/ \E f \in InsertFaults : InsertGame(f)
    \/ \E resp \in Responses, tg \in TagSamples : GetGameTags(resp, tg)
    \/ \E f \in BOOLEAN : InsertGameTags(f)
    \/ \E c \in BOOLEAN : StartRecheck(c)
    \/ \E f \in BOOLEAN : CreateCheckingTable(f)
    \/ \E f \in SweepFaults : Sweep(f)
    \/ \E f \in BOOLEAN : GetGamesToCheck(f)
    \/ \E f \in BOOLEAN : RemoveCheckedGame(f)
    \/ \E m \in MaxGamesSamples, c \in BOOLEAN : StartNintendo(m, c)
    \/ \E f \in BOOLEAN : CreateMainTable(f)
    \/ \E f \in StagingFaults : CreateStagingTable(f)
    \/ \E n \in TotalSamples : GetTotalGamesCount(n)
    \/ \E docs \in BatchSamples, failAt \in 0..MaxBatchDocs : ProcessBatch(docs, failAt)
    \/ \E f \in MergeFaults : MergeStaging(f)
    \/ \E f \in BOOLEAN : DropStaging(f)
    \/ \E c \in BOOLEAN : StartRefresh(c)
    \/ \E f \in BOOLEAN, q \in RecentChoices(tx.games) : GetRecentGames(q, f)
    \/ \E resp \in Responses, rs \in ReviewSamples : RefreshReviewSummary(resp, rs)
    \/ \E f \in ReviewFaults : UpdateGameReviews(f)
    \/ \E resp \in Responses, tg \in NewTagSamples : RefreshGameTags(resp, tg)
    \/ \E f \in BOOLEAN : UpdateGameTags(f)
    \/ \E c \in BOOLEAN : StartComprehensive(c)
    \/ \E f \in BOOLEAN : GetTotalComingSoonCount(f)
    \/ \E f \in BOOLEAN : GetComingSoonBatch(f)
    \/ \E resp \in Responses, d \in DetailChoices, changed \in BOOLEAN :
           CheckAppDetails(resp, d, changed)
    \/ \E f \in ReviewFaults : UpdateGameData(f)
    \/ ConcurrentSweep
    \/ Kill
    \/ \E d \in TickDays : Tick(d)

Spec == Init /\ [][Next]_vars

\* Runs of 03 only.
NextNintendo ==
    \/ \E m \in MaxGamesSamples, c \in BOOLEAN : StartNintendo(m, c)
    \/ \E f \in BOOLEAN : CreateMainTable(f)
    \/ \E f \in StagingFaults : CreateStagingTable(f)
    \/ \E n \in TotalSamples : GetTotalGamesCount(n)
    \/ \E docs \in BatchSamples, failAt \in 0..MaxBatchDocs : ProcessBatch(docs, failAt)
    \/ \E f \in MergeFaults : MergeStaging(f)
    \/ \E f \in BOOLEAN : DropStaging(f)
    \/ Kill

SpecNintendo == Init /\ [][NextNintendo]_vars

\* Runs of 01 only, as its __main__ starts them (no start, no limit).
NextAppend ==
    \/ \E ft \in BOOLEAN, c \in BOOLEAN : StartAppend(Null, Null, ft, c)
    \/ \E f \in BOOLEAN : ResumeCursor(f)
    \/ \E apps \in SUBSET AppIds : GetAppList(apps)
    \/ \E resp \in Responses, d \in DetailChoices : GetAppDetails(resp, d)
    \/ CheckKind
    \/ \E resp \in Responses, rs \in ReviewSamples : GetReviewSummary(resp, rs)
    \/ \E f \in InsertFaults : InsertGame(f)
    \/ \E resp \in Responses, tg \in TagSamples : GetGameTags(resp, tg)
    \/ \E f \in BOOLEAN : InsertGameTags(f)
    \/ Kill

SpecAppend == Init /\ [][NextAppend]_vars

\* 01 without tags followed by runs of 04 as the days pass; the review and
\* tag requests are answered or fail, the appdetails request is also throttled.
NextRecheck ==
    \/ \E c \in BOOLEAN : StartAppend(Null, Null, FALSE, c)
    \/ \E f \in BOOLEAN : ResumeCursor(f)
    \/ \E apps \in SUBSET AppIds : GetAppList(apps)
    \/ \E resp \in Responses, d \in DetailChoices : GetAppDetails(resp, d)
    \/ CheckKind
    \/ \E resp \in {"ok", "failed"} : GetReviewSummary(resp, Null)
    \/ \E f \in InsertFaults : InsertGame(f)
    \/ \E resp \in {"ok", "failed"} : GetGameTags(resp, <<"rpg">>)
    \/ \E f \in BOOLEAN : InsertGameTags(f)
    \/ \E c \in BOOLEAN : StartRecheck(c)
    \/ \E f \in BOOLEAN : CreateCheckingTable(f)
    \/ \E f \in SweepFaults : Sweep(f)
    \/ \E f \in BOOLEAN : GetGamesToCheck(f)
    \/ \E f \in BOOLEAN : RemoveCheckedGame(f)
    \/ Kill
    \/ \E d \in TickDays : Tick(d)

SpecRecheck == Init /\ [][NextRecheck]_vars

\* Runs of 01 (with tags) and of 02: the store page shows <<"rpg">> to 01
\* and the NewTagSamples to 02; requests are answered or fail.
NextRefresh ==
    \/ \E c \in BOOLEAN : StartAppend(Null, Null, TRUE, c)
    \/ \E f \in BOOLEAN : ResumeCursor(f)
    \/ \E apps \in SUBSET AppIds : GetAppList(apps)
    \/ \E resp \in {"ok", "failed"}, d \in DetailChoices : GetAppDetails(resp, d)
    \/ CheckKind
    \/ \E resp \in {"ok", "failed"} : GetReviewSummary(resp, Null)
    \/ \E f \in InsertFaults : InsertGame(f)
    \/ \E resp \in {"ok", "failed"} : GetGameTags(resp, <<"rpg">>)
    \/ \E f \in BOOLEAN : InsertGameTags(f)
    \/ \E c \in BOOLEAN : StartRefresh(c)
    \/ \E f \in BOOLEAN, q \in RecentChoices(tx.games) : GetRecentGames(q, f)
    \/ \E resp \in Responses, rs \in ReviewSamples : RefreshReviewSummary(resp, rs)
    \/ \E f \in ReviewFaults : UpdateGameReviews(f)
    \/ \E resp \in Responses, tg \in NewTagSamples : RefreshGameTags(resp, tg)
    \/ \E f \in BOOLEAN : UpdateGameTags(f)
    \/ Kill

SpecRefresh == Init /\ [][NextRefresh]_vars

\* Runs of 01 without tags over a catalogue of one app whose payload is any
\* of the RawDetailSamples; requests are answered or fail, the statements of
\* insert_game do not.
NextNormalize ==
    \/ \E c \in BOOLEAN : StartAppend(Null, Null, FALSE, c)
    \/ \E f \in BOOLEAN : ResumeCursor(f)
    \/ GetAppList({1})
    \/ \E resp \in {"ok", "failed"}, d \in RawDetailChoices : GetAppDetails(resp, d)
    \/ CheckKind
    \/ \E resp \in {"ok", "failed"} : GetReviewSummary(resp, 42)
    \/ InsertGame("none")
    \/ Kill

SpecNormalize == Init /\ [][NextNormalize]_vars

\* Runs of 01 without tags as a caller starts them, with or without a start
\* position and a limit, over the catalogue of every app id.
StartSamples == {Null} \cup AppIds
LimitSamples == {Null} \cup (0..MaxAppId)

NextArgs ==
    \/ \E s \in StartSamples, l \in LimitSamples, c \in BOOLEAN :
           StartAppend(s, l, FALSE, c)
    \/ \E f \in BOOLEAN : ResumeCursor(f)
    \/ GetAppList(AppIds)
    \/ \E resp \in Responses, d \in DetailChoices : GetAppDetails(resp, d)
    \/ CheckKind
    \/ \E resp \in {"ok", "failed"} : GetReviewSummary(resp, Null)
    \/ \E f \in InsertFaults : InsertGame(f)
    \/ Kill

SpecArgs == Init /\ [][NextArgs]_vars

\* Runs of 01 without tags and of 07; requests are answered or fail, the
\* statements of 01 and the two SELECTs of 07 do not, the UPDATE of 07 may.
NextComprehensive ==
    \/ \E c \in BOOLEAN : StartAppend(Null, Null, FALSE, c)
    \/ ResumeCursor(FALSE)
    \/ \E apps \in SUBSET AppIds : GetAppList(apps)
    \/ \E resp \in {"ok", "failed"}, d \in DetailChoices : GetAppDetails(resp, d)
    \/ CheckKind
    \/ \E resp \in {"ok", "failed"} : GetReviewSummary(resp, 42)
    \/ InsertGame("none")
    \/ \E c \in BOOLEAN : StartComprehensive(c)
    \/ GetTotalComingSoonCount(FALSE)
    \/ GetComingSoonBatch(FALSE)
    \/ \E resp \in Responses, d \in DetailChoices, changed \in BOOLEAN :
           CheckAppDetails(resp, d, changed)
    \/ \E f \in {"none", "update", "commit"} : UpdateGameData(f)
    \/ Kill

SpecComprehensive == Init /\ [][NextComprehensive]_vars

\* Runs of 01 without tags over the whole catalogue, every game of it
\* unreleased and free, of 02 and of 07, the
\* clock, and the sweep of a 04 run in another process; requests are answered
\* (those of 02 may fail), and no statement fails but the UPDATE of 02.
NextFrame ==
    \/ StartAppend(Null, Null, FALSE, TRUE)
    \/ ResumeCursor(FALSE)
    \/ GetAppList(AppIds)
    \/ GetAppDetails("ok", [BaseDetails EXCEPT !.coming_soon = TRUE,
                                              !.price = NoPrice, !.is_free = TRUE])
    \/ CheckKind
    \/ GetReviewSummary("ok", 42)
    \/ InsertGame("none")
    \/ StartRefresh(TRUE)
    \/ \E q \in RecentChoices(tx.games) : GetRecentGames(q, FALSE)
    \/ \E resp \in {"ok", "failed"} : RefreshReviewSummary(resp, 42)
    \/ \E f \in ReviewFaults : UpdateGameReviews(f)
    \/ \E resp \in {"ok", "failed"} : RefreshGameTags(resp, <<"indie">>)
    \/ UpdateGameTags(FALSE)
    \/ StartComprehensive(TRUE)
    \/ GetTotalComingSoonCount(FALSE)
    \/ GetComingSoonBatch(FALSE)
    \/ \E d \in DetailChoices, changed \in BOOLEAN : CheckAppDetails("ok", d, changed)
    \/ UpdateGameData("none")
    \/ ConcurrentSweep
    \/ Tick(StalenessDays + 1)

SpecFrame == Init /\ [][NextFrame]_vars

\* No-argument runs of 01 without tags, each over the whole catalogue, every
\* app of which is a game; requests and statements may fail, no run is
\* killed.  A run works through the ids from its cursor upwards, so an id
\* that is not in games while a higher one is has been skipped by an earlier
\* run, for a failed detail fetch or a failed upsert.
NextSkipped ==
    \/ \E c \in BOOLEAN : StartAppend(Null, Null, FALSE, c)
    \/ \E f \in BOOLEAN : ResumeCursor(f)
    \/ GetAppList(AppIds)
    \/ \E resp \in Responses, d \in { x \in DetailChoices : x.type = GameKind } :
           GetAppDetails(resp, d)
    \/ CheckKind
    \/ \E resp \in Responses, rs \in ReviewSamples : GetReviewSummary(resp, rs)
    \/ \E f \in InsertFaults : InsertGame(f)

SpecSkipped == Init /\ [][NextSkipped]_vars

\* The resume step of 01 alone, over stores left by earlier runs: games
\* holds any set of keys up to CursorMaxKey (each the row of a released,
\* priced game synced on day 0).
SeedRow == GameRow(BaseDetails, Null, 0)

SeedDb(ks) == [EmptyDb EXCEPT !.games = [k \in ks |-> SeedRow]]

InitCursor ==
    /\ \E ks \in SUBSET (1..CursorMaxKey) :
           /\ db = SeedDb(ks)
           /\ tx = SeedDb(ks)
    /\ aborted = FALSE
    /\ today = 0
    /\ pc = "idle"
    /\ mode = "none"
    /\ explicit_start = Null
    /\ limit = Null
    /\ fetch_tags = TRUE
    /\ start_app_id = Null
    /\ valid_apps = <<>>
    /\ idx = 0
    /\ details = NoDetails
    /\ review_summary = Null
    /\ tags = <<>>
    /\ depth = 0
    /\ processed = 0
    /\ skipped = 0
    /\ successful = 0
    /\ tags_collected = 0
    /\ hwm_at_start = 0
    /\ after_kill = FALSE
    /\ fetched = {}
    /\ reported = {}
    /\ last_resp = "none"
    /\ total_games = Null
    /\ current_position = 0
    /\ new_records = Null
    /\ max_games = Null
    /\ batch_count = 0

NextCursor ==
    \/ \E c \in BOOLEAN : StartAppend(Null, Null, TRUE, c)
    \/ \E f \in BOOLEAN : ResumeCursor(f)

SpecCursor == InitCursor /\ [][NextCursor]_vars

\* =============================================================== claims

\* C1: in append mode started with no explicit start position, the run never
\* fetches or upserts an item whose key is less than or equal to the highest
\* key present in Item (games) at the start of the run.
C1_NeverReprocesses ==
    (mode = "append" /\ explicit_start = Null) =>
        \A k \in fetched \cup reported : k > hwm_at_start

C3_KillThenResume ==
    /\ (mode = "append" /\ pc = "killed") => reported \subseteq Keys(db.games)
    /\ (mode = "append" /\ explicit_start = Null /\ after_kill /\ pc = "list"
            /\ Keys(db.games) # {}) =>
           start_app_id = SetMax(Keys(db.games)) + 1

\* C4: insert_game writes the games row and, when the payload has a price,
\* the price_history row in one transaction: a step from the upsert either
\* commits both writes and counts a success, or leaves games and price_history
\* as they were and reports failure (False: the item is counted as skipped; or
\* the exception itself: the run ends there) or is the death of the process.
C4_UpsertAtomic ==
    [][pc = "upsert" =>
          \/ /\ successful' = successful + 1
             /\ db'.games = UpsertRow(db.games, cur_app,
                                      GameRow(details, review_summary, today))
             /\ db'.price_history =
                    IF details.price # NoPrice
                    THEN Append(db.price_history, PriceRow(cur_app, details))
                    ELSE db.price_history
          \/ /\ successful' = successful
             /\ \/ skipped' = skipped + 1
                \/ pc' = "killed"
                \/ pc' = "done" /\ skipped' = skipped /\ processed' = processed
             /\ db'.games = db.games
             /\ db'.price_history = db.price_history]_vars

C4_Witness ==
    /\ mode = "append"
    /\ pc = "tags"
    /\ cur_app \in reported
    /\ details.price # NoPrice
    /\ \E i \in 1..Len(db.price_history) : db.price_history[i].app_id = cur_app
    /\ skipped > 0

NonTimestamp(row) == [row EXCEPT !.last_updated = 0]

\* The upsert about to run repeats an earlier one: the stored row of the
\* current item has the non-timestamp fields of the payload in hand.
SameItemAgain ==
    /\ pc = "upsert"
    /\ cur_app \in Keys(db.games)
    /\ NonTimestamp(db.games[cur_app]) = GameRow(details, review_summary, 0)

\* C5 (as claimed): a second successful insert_game of the same item leaves
\* one games row for its key with the same non-timestamp fields, and adds one
\* price_history row.
C5_SecondUpsertAsClaimed ==
    [][(SameItemAgain /\ successful' = successful + 1) =>
          /\ Keys(db'.games) = Keys(db.games)
          /\ NonTimestamp(db'.games[cur_app]) = NonTimestamp(db.games[cur_app])
          /\ Len(db'.price_history) = Len(db.price_history) + 1]_vars

\* C5 (amended): a second successful insert_game of the same item leaves one
\* games row for its key with the same non-timestamp fields, and adds one
\* price_history row when the item has a price and none when it has not.
C5_SecondUpsert ==
    [][(SameItemAgain /\ successful' = successful + 1) =>
          /\ Keys(db'.games) = Keys(db.games)
          /\ NonTimestamp(db'.games[cur_app]) = NonTimestamp(db.games[cur_app])
          /\ db'.price_history =
                 IF details.price # NoPrice
                 THEN Append(db.price_history, PriceRow(cur_app, details))
                 ELSE db.price_history]_vars

C5_Witness ==
    /\ Cardinality(reported) = 1
    /\ \E i, j \in 1..Len(db.price_history) :
           /\ i < j
           /\ db.price_history[i] = db.price_history[j]
           /\ db.price_history[i].app_id \in reported

\* C6: for the items the sweep selects, a sweep that succeeds leaves each of
\* them in games_checking_for_updates and not in games; a sweep whose INSERT
\* into games_checking_for_updates fails changes nothing, and each of them is
\* still in games and not in games_checking_for_updates.
C6_SweepAllOrNothing ==
    [][pc = "sweep" =>
          LET ids == app_ids_to_move(db.games, today)
          IN  /\ pc' = "pending" =>
                     \A k \in ids : /\ k \in Keys(db'.checking)
                                    /\ k \notin Keys(db'.games)
              /\ (pc' = "done" /\ ids # {}) =>
                     /\ db' = db
                     /\ \A k \in ids : /\ k \in Keys(db'.games)
                                       /\ k \notin Keys(db'.checking)]_vars

\* C7: in every committed state of a recheck run, an item the run has
\* upserted into games is no longer in games_checking_for_updates.
C7_PromoteAtomic ==
    mode = "recheck" => \A k \in reported : k \notin Keys(db.checking)

\* C8: while the item in hand has a type other than 'game', no step writes
\* games, and the step that goes on to the next item (or ends the loop) counts
\* it as skipped; no row of games has a type other than 'game'.
C8_KindFilter ==
    /\ [](\A k \in Keys(db.games) : db.games[k].type = GameKind)
    /\ [][(Running /\ details.type \notin {GameKind, "none"}) =>
              /\ db'.games = db.games
              /\ (idx' # idx \/ pc' = "done") => skipped' = skipped + 1]_vars

\* C9: a request answered with 429 is issued again for the same item: the
\* call does not return, the driver stays at the same step of the same item
\* and the item is not counted as skipped.
C9_ThrottleRetries ==
    [][last_resp' = "throttled" =>
          /\ pc' = pc
          /\ idx' = idx
          /\ depth' = depth + 1
          /\ skipped' = skipped
          /\ processed' = processed]_vars

\* C10: when the appdetails request fails (a status other than 200 and 429, or
\* a transport error) get_app_details returns None: the driver counts the item
\* as skipped and processed, writes nothing to the store, and goes on with the
\* next item of the worklist (or ends the run after the last one).
C10_FailedDetailSkipped ==
    [][(pc = "details" /\ last_resp' = "failed") =>
          /\ details' = NoDetails
          /\ skipped' = skipped + 1
          /\ processed' = processed + 1
          /\ successful' = successful
          /\ db' = db
          /\ IF idx < Len(valid_apps)
             THEN /\ idx' = idx + 1
                  /\ pc' = "details"
                  /\ tx' = tx
             ELSE pc' = "done"]_vars

C10_Witness ==
    /\ mode = "append"
    /\ pc = "details"
    /\ idx = 2
    /\ last_resp = "failed"
    /\ skipped = 1
    /\ valid_apps[1] \notin Keys(db.games)

\* C11: a store operation called by the drivers of 01 and 04 (insert_game,
\* insert_game_tags, the sweep, remove_checked_game) that hits a database
\* error rolls its transaction back: when it has returned, the session is not
\* left in the failed-transaction state.
C11_StoreOpsRollBack ==
    [][(pc \in {"upsert", "inserttags", "sweep", "remove"}) => aborted' = FALSE]_vars

\* C12: once connected, the item loop of a run ends only after the last
\* candidate: a step that takes the driver of 01 from inside the loop to the
\* end of the run is taken at the last item of the worklist.
C12_LoopRunsToEnd ==
    [][(mode = "append" /\ pc' = "done"
            /\ pc \in {"details", "kind", "reviews", "upsert", "tags", "inserttags"})
          => idx = Len(valid_apps)]_vars

\* C13: when the database connection cannot be established at the start, the
\* run ends there: it has fetched nothing from the source and written nothing
\* to the store, and nothing of it runs afterwards.
C13_NoWorkWithoutConnection ==
    /\ [][last_resp' = "refused" =>
              /\ pc' = "failed"
              /\ db' = db
              /\ fetched' = {}
              /\ valid_apps' = <<>>]_vars
    /\ [][pc = "failed" => (db' = db /\ fetched' = {} /\ reported' = {})]_vars

C13_Witness ==
    /\ mode = "append"
    /\ pc = "failed"
    /\ last_resp = "refused"
    /\ Keys(db.games) # {}

\* C14: when the database connection cannot be established at the start, the
\* process exits with a status other than 0.
C14_ConnectFailureExitsNonZero ==
    pc = "failed" => ExitStatus # 0

\* C15: merge_staging_to_main leaves every row that was in games_nintendo in
\* place and unchanged, adds no row whose natural key was already there, leaves
\* one row per natural key, and returns the number of rows it added.
C15_MergeKeepsExisting ==
    [][(pc = "n_merge" /\ pc' = "n_drop") =>
          /\ db.games_nintendo \subseteq db'.games_nintendo
          /\ \A m \in db'.games_nintendo \ db.games_nintendo :
                 \A e \in db.games_nintendo : e.key # m.key
          /\ \A m1, m2 \in db'.games_nintendo : m1.key = m2.key => m1 = m2
          /\ new_records' = Cardinality(db'.games_nintendo \ db.games_nintendo)]_vars

C15_Witness ==
    /\ pc = "n_drop"
    /\ new_records = 1
    /\ \E m \in db.games_nintendo :
           \E i, j \in 1..Len(db.staging) :
               /\ i < j
               /\ db.staging[i].key = m.key
               /\ db.staging[j].key = m.key
               /\ db.staging[i].payload # m.payload

\* C16: a merge that meets no database fault on a healthy session leaves, for
\* every staged record, a row of games_nintendo with its natural key: the
\* record was inserted unless the key was already there.
C16_MergeInsertsEveryNewKey ==
    [][(pc = "n_merge" /\ pc' = "n_drop" /\ last_resp' = "none" /\ ~aborted) =>
          \A i \in 1..Len(tx.staging) :
              \E m \in db'.games_nintendo : m.key = tx.staging[i].key]_vars

\* C17: a run of 03 that got as far as creating the staging table ends with
\* the staging table dropped.
C17_StagingDropped ==
    (mode = "nintendo" /\ pc = "done" /\ total_games # Null) => ~db.staging_exists

\* C18: when the sweep has returned (it moved rows, found none to move or
\* failed on the way) the session's session_replication_role is the default,
\* in the session and in what it has committed.
C18_ForeignKeysRestored ==
    [][pc = "sweep" => (tx'.role = "origin" /\ db'.role = "origin")]_vars

C18_Witness ==
    /\ mode = "recheck"
    /\ pc = "pending"
    /\ Keys(db.checking) # {}
    /\ Keys(db.games) # {}
    /\ tx.role = "origin"

C20_RemoveOnlyAfterUpsert ==
    [][/\ \A k \in Keys(db.checking) \ Keys(db'.checking) :
              /\ mode = "recheck"
              /\ k \in reported
              /\ k \in Keys(db.games)
       /\ (mode = "recheck" /\ pc \in {"details", "upsert"}
               /\ skipped' = skipped + 1) =>
              cur_app \in Keys(db'.checking)]_vars

C20_Witness ==
    /\ mode = "recheck"
    /\ pc = "done"
    /\ skipped = 1
    /\ successful = 1
    /\ Cardinality(Keys(db.checking)) = 1
    /\ Keys(db.checking) \cap reported = {}
    /\ reported \subseteq Keys(db.games)

\* C21: a row of games is deleted only by the sweep, which in the same
\* transaction puts it into games_checking_for_updates; so an app_id that is
\* in games or in games_checking_for_updates in one committed state is in
\* games or in games_checking_for_updates in the next.
C21_ItemNeverLost ==
    [][/\ (Keys(db.games) \ Keys(db'.games)) # {} =>
              /\ pc = "sweep"
              /\ (Keys(db.games) \ Keys(db'.games)) \subseteq Keys(db'.checking)
       /\ \A k \in Keys(db.games) \cup Keys(db.checking) :
              k \in Keys(db'.games) \cup Keys(db'.checking)]_vars

\* A sweep has moved one item and left another in games.
C21_Witness ==
    /\ mode = "recheck"
    /\ pc = "pending"
    /\ \E k \in Keys(db.checking) : k \notin Keys(db.games)
    /\ \E j \in Keys(db.games) : j \notin Keys(db.checking)

\* C22: whenever update_game_tags (02) is called and returns True, the rows
\* of game_tags the session holds for that app_id are exactly the pairs of the
\* new tag list (repeats collapsed, every earlier row of the app gone) and the
\* rows of other apps are untouched; insert_game_tags (01) never removes a row
\* of game_tags and, when it returns True, has added exactly the pairs of its
\* list.  (The driver of 02 calls update_game_tags with a non-empty list only.)
TagPairs(app_id, tg) == { <<app_id, tg[i]>> : i \in 1..Len(tg) }

C23_PriceHistoryAppendOnly ==
    [][/\ Len(db'.price_history) >= Len(db.price_history)
       /\ \A i \in 1..Len(db.price_history) :
              db'.price_history[i] = db.price_history[i]
       /\ (pc = "upsert" /\ successful' = successful + 1
               /\ details.price # NoPrice) =>
              db'.price_history = Append(db.price_history, PriceRow(cur_app, details))]_vars

\* Two runs have synced the same priced item: price_history holds two equal
\* rows for it, in a store that has also seen a sweep.
C23_Witness ==
    /\ Len(db.price_history) = 2
    /\ db.price_history[1] = db.price_history[2]
    /\ db.price_history[1].app_id \in Keys(db.games)
    /\ Keys(db.checking) # {}

\* C24: a successful insert_game in an append run commits the games row of
\* the item with the payload's is_free and the summary's total_reviews, and
\* commits one more price_history row exactly when the payload has a
\* price_overview; so a free game without price_overview whose summary counts
\* 42 reviews gives a row with is_free true and total_reviews 42 and no
\* price_history row.
C24_FreeItemNoPriceRow ==
    [][(mode = "append" /\ pc = "upsert" /\ successful' = successful + 1) =>
           /\ cur_app \in Keys(db'.games)
           /\ db'.games[cur_app].is_free = details.is_free
           /\ db'.games[cur_app].total_reviews = review_summary
           /\ (details.price # NoPrice) <=>
                  (Len(db'.price_history) = Len(db.price_history) + 1)
           /\ (details.price = NoPrice) <=>
                  (db'.price_history = db.price_history)
           /\ (details.is_free /\ details.price = NoPrice /\ review_summary = 42) =>
                  /\ db'.games[cur_app].is_free = TRUE
                  /\ db'.games[cur_app].total_reviews = 42
                  /\ db'.price_history = db.price_history]_vars

\* An append run over a catalogue of one free game without price_overview and
\* with 42 reviews has ended: one games row, no price_history row.
C24_Witness ==
    /\ mode = "append"
    /\ pc = "done"
    /\ successful = 1
    /\ processed = 1
    /\ Cardinality(Keys(db.games)) = 1
    /\ \A k \in Keys(db.games) :
           /\ k \in reported
           /\ db.games[k].type = GameKind
           /\ db.games[k].is_free = TRUE
           /\ db.games[k].price_overview = NoPrice
           /\ db.games[k].total_reviews = 42
    /\ db.price_history = <<>>

\* The number a string of decimal digits denotes, by place value
RECURSIVE PlaceValue(_, _)
PlaceValue(ds, i) ==
    IF i > Len(ds) THEN 0
    ELSE (CHOOSE v \in 0..9 : DecimalDigits[v + 1] = ds[i])
             * (10 ^ (Len(ds) - i)) + PlaceValue(ds, i + 1)

\* The payload of the item in hand has been received.
PayloadInHand == pc \in {"kind", "reviews", "upsert"}

\* C25: for the required_age of every payload, safe_int_convert does not
\* raise; it gives None for None, the int itself for an int, and for a str the
\* number its digit characters denote ("17+" gives 17), None when it has no
\* digit ("M" gives None).
C25_SafeIntConvert ==
    PayloadInHand =>
        LET value == details.required_age
            r == safe_int_convert(value)
            ds == SelectSeq(value.s, LAMBDA c : c \in {"1", "7"})
        IN  /\ r # PyRaise
            /\ value = PyNone => r = PyNone
            /\ value.kind = "int" => r = value
            /\ value.kind = "str" =>
                   r = IF ds = <<>> THEN PyNone ELSE PyInt(PlaceValue(ds, 1))
            /\ value = PyStr(<<"1", "7", "+">>) => r = PyInt(17)
            /\ value = PyStr(<<"M">>) => r = PyNone
            /\ value = PyInt(21) => r = PyInt(21)

\* C26: the row a successful insert_game commits holds, as
\* minimum_requirements and recommended_requirements, the 'minimum' and
\* 'recommended' entries of pc_requirements when it is a dict, its first and
\* second elements when it is a list, and '' for each part that is not there:
\* a missing pc_requirements, a dict without the entry, a list too short, a
\* value of another type.
C26_RequirementsPair ==
    [][(pc = "upsert" /\ successful' = successful + 1) =>
           LET r == details.pc_requirements
               row == db'.games[cur_app]
               minimum == row.minimum_requirements
               recommended == row.recommended_requirements
               entry(key, part) ==
                   /\ \A i \in 1..Len(r.entries) :
                          r.entries[i][1] = key => part = r.entries[i][2]
                   /\ (\A i \in 1..Len(r.entries) : r.entries[i][1] # key) => part = ""
           IN  /\ r.kind = "dict" => entry("minimum", minimum)
                                        /\ entry("recommended", recommended)
               /\ (r.kind = "list" /\ Len(r.items) >= 2) =>
                      minimum = r.items[1] /\ recommended = r.items[2]
               /\ (r.kind = "list" /\ Len(r.items) = 1) =>
                      minimum = r.items[1] /\ recommended = ""
               /\ (r.kind = "list" /\ Len(r.items) = 0) =>
                      minimum = "" /\ recommended = ""
               /\ r.kind \notin {"dict", "list"} =>
                      minimum = "" /\ recommended = ""]_vars

\* A run has committed a row normalised from a one-part pc_requirements.
C26_Witness ==
    /\ pc = "done"
    /\ reported = {1}
    /\ 1 \in Keys(db.games)
    /\ db.games[1].minimum_requirements = "min"
    /\ db.games[1].recommended_requirements = ""

\* C27: whatever the optional parts of a payload of type 'game' look like
\* (missing, or of an unexpected shape), insert_game on a healthy session
\* stores the item: unless the process is killed, the step counts it as
\* successful, not as skipped, and its row is committed.
C27_MalformedNeverFails ==
    [][(mode = "append" /\ pc = "upsert" /\ aborted = FALSE
            /\ details.type = GameKind /\ pc' # "killed") =>
           /\ successful' = successful + 1
           /\ skipped' = skipped
           /\ cur_app \in Keys(db'.games)]_vars

\* C28: a run started with a start position s and a limit n takes s as its
\* cursor without querying the store, requests the details of its worklist in
\* ascending order of app id, and when it has ended has requested the details
\* of exactly the n lowest app ids of the catalogue that are >= s.
C28_ExplicitStartAndLimit ==
    /\ [][(pc = "resume" /\ explicit_start # Null /\ pc' = "list") =>
              /\ start_app_id' = explicit_start
              /\ db' = db /\ tx' = tx /\ aborted' = aborted]_vars
    /\ [](\A i, j \in 1..Len(valid_apps) : i < j => valid_apps[i] < valid_apps[j])
    /\ []((mode = "append" /\ explicit_start # Null /\ limit # Null /\ pc = "done") =>
              LET lowest == { a \in AppIds :
                                /\ a >= explicit_start
                                /\ Cardinality({ b \in AppIds :
                                       b >= explicit_start /\ b < a }) < limit }
              IN  fetched = lowest)

\* C29: every step that sends a request to the source (the app list, a page
\* of the catalogue or its count, details, review summary, tags; retries
\* included) comes after a politeness delay.
C29_DelayBeforeEveryRequest ==
    [][(pc \in {"list", "details", "reviews", "tags", "r_reviews", "r_tags",
                "c_details", "n_count", "n_batch"}
            /\ pc' # "killed") => delay_before_request]_vars

\* C30: when a run of the comprehensive check has ended (it was not killed),
\* it has requested the details of every game that is coming_soon in games
\* (a game that was coming_soon when the run started is still so unless the
\* run itself updated it, which it does only after requesting its details),
\* and it has checked no game twice.
C30_ChecksEveryComingSoon ==
    (mode = "comprehensive" /\ pc = "done") =>
        /\ \A k \in Keys(db.games) : db.games[k].coming_soon => k \in fetched
        /\ processed = Cardinality(fetched)


\* ------------------------------------------------------------------ C31
\* C31: the paging loop of the bulk backfill asks for the pages at offsets 0,
\* B, 2B, ... (the offset of a turn is B times the number of turns before
\* it), makes at most ceil(total_games / B) turns, also when a page is empty
\* or its request failed, and goes on to the merge after the last turn.
C31_PagingLoop ==
    /\ [](mode = "nintendo" =>
             /\ current_position = batch_count * batch_size
             /\ batch_count > 0 => (batch_count - 1) * batch_size < total_games
             /\ pc = "n_batch" => current_position < total_games
             /\ pc = "n_merge" => batch_count * batch_size >= total_games)
    /\ [][(pc = "n_batch" /\ pc' # "killed") =>
             /\ batch_count' = batch_count + 1
             /\ current_position' = current_position + batch_size
             /\ pc' = IF current_position' < total_games
                      THEN "n_batch" ELSE "n_merge"]_vars

\* the second and last page of a catalogue of B + 1 games came back empty, and
\* the run is at the merge
C31_Witness ==
    /\ mode = "nintendo"
    /\ pc = "n_merge"
    /\ total_games = batch_size + 1
    /\ batch_count = 2
    /\ last_resp = "failed"


\* ------------------------------------------------------------------ C32
\* C32: in every committed state no app_id is both in games and in
\* games_checking_for_updates.
C32_NeverInBothTables ==
    Keys(db.games) \cap Keys(db.checking) = {}


\* ------------------------------------------------------------------ C33
\* C33: a recheck run attempts every entry that was in
\* games_checking_for_updates when it started (the table is as the run found
\* it until the sweep): the run does not return at the sweep while the table
\* holds entries whose details it has not fetched.
C33_LeftoversAttempted ==
    [][(mode = "recheck" /\ pc = "sweep" /\ pc' = "done") =>
           Keys(db.checking) \subseteq fetched']_vars


\* ------------------------------------------------------------------ C34
\* C34: when a run ends normally, the game_tags rows of every item whose tag
\* insert returned True (and was counted in tags_collected) are committed; in
\* particular those of the last item of the run, after whose tag insert the
\* driver disconnects.
C34_TagWritesCommitted ==
    [][(pc = "inserttags" /\ pc' = "done" /\ tags_collected' > tags_collected) =>
           TagPairs(cur_app, tags) \subseteq db'.game_tags]_vars


\* ------------------------------------------------------------------ C35
\* C35: whatever happens to the upsert of one item, a database error
\* included, the game_tags rows that insert_game_tags wrote (and reported as
\* written) for the items before it are still there afterwards.
C35_ErrorIsolation ==
    [][(pc = "upsert" /\ pc' # "killed") =>
           \A p \in tx.game_tags : p[1] # cur_app => p \in tx'.game_tags]_vars


\* ------------------------------------------------------------------ C36
\* C36: a step that writes an item for which no review data was obtained (the
\* update of 07, which fetches none, or an upsert after a review fetch that
\* failed or was empty) leaves a stored total_reviews that was not null not
\* null.
C36_ReviewAggregateKept ==
    [][(pc = "c_update" \/ (pc = "upsert" /\ review_summary = Null)) =>
           \A k \in Keys(db.games) \cap Keys(db'.games) :
               db.games[k].total_reviews # Null =>
                   db'.games[k].total_reviews # Null]_vars


\* ------------------------------------------------------------------ C37
\* C37: a step of 02 or of 07 (a step that moves the script: the sweep of
\* another process is not one) neither adds a row to games nor removes one,
\* and leaves games_checking_for_updates and price_history as they are; when
\* the row of the item in hand is gone, the UPDATE commits nothing and the
\* item is not counted as updated.
C37_UpdateOnly ==
    [][(/\ mode \in {"refresh", "comprehensive"}
        /\ Running
        /\ << pc, idx, depth, current_position >>' #
               << pc, idx, depth, current_position >>) =>
           /\ Keys(db'.games) = Keys(db.games)
           /\ db'.checking = db.checking
           /\ db'.price_history = db.price_history
           /\ (pc \in {"r_update", "c_update"} /\ cur_app \notin Keys(tx.games)) =>
                  /\ db' = db
                  /\ successful' = successful]_vars

\* a refresh of one game ended after its UPDATE, which matched no row because
\* the game had been swept out of games meanwhile, and counted it as failed
C37_Witness ==
    /\ mode = "refresh"
    /\ pc = "done"
    /\ Len(valid_apps) = 1
    /\ valid_apps[1] \notin Keys(db.games)
    /\ valid_apps[1] \in Keys(db.checking)
    /\ review_summary = Null
    /\ last_resp = "none"
    /\ successful = 0
    /\ skipped = 1


\* ------------------------------------------------------------------ C38
\* C38: a no-argument append run does not request the details of an item
\* that an earlier run skipped (it is not in games) once an item with a
\* higher key is stored (its key is below the highest key of games at the
\* start of the run).
C38_SkippedNotRetried ==
    [][(/\ mode = "append"
        /\ explicit_start = Null
        /\ pc = "details"
        /\ cur_app < hwm_at_start
        /\ cur_app \notin Keys(db.games)) => cur_app \notin fetched']_vars


\* ------------------------------------------------------------------ C39
\* C39: a bulk backfill started with max_games = m (m >= 1) stages at most m
\* records and merges at most m records into games_nintendo.
C39_MaxGamesBoundsRun ==
    (mode = "nintendo" /\ max_games # Null /\ max_games >= 1) =>
        /\ Len(tx.staging) <= max_games
        /\ new_records # Null => new_records <= max_games

====
